---- MODULE Spec2Model ----
(***************************************************************************)
(* A model of linkage.ink: the kinematic chain (LinkageMechanism), the     *)
(* trace recorder (TraceSystem), the camera (Camera) and the frame loop    *)
(* (p.draw) with the handlers that drive them.                             *)
(*                                                                         *)
(* Numbers.  The program computes in IEEE doubles; the model computes in   *)
(* fixed point.  World coordinates and rod lengths are integers, cosines   *)
(* and sines are in thousandths, the camera zoom is in thousandths and the *)
(* camera offset in thousandths of a pixel, so that worldToScreen is exact.*)
(* Angles are kept as the pair (cos, sin) the code takes of them; the      *)
(* crank angle is counted in steps of crankSpeed = 2*PI/FRAMES_PER_ROUND.  *)
(***************************************************************************)
EXTENDS Integers, Sequences, FiniteSets, TLC

VARIABLES
    \* LinkageMechanism
    anchor, rods, guidePoints, joints, crankAngle, crankSpeed,
    isPlaying, isStretchingMode,
    \* TraceSystem
    tracePaths, fullRodTracePaths, fadeLifespan, traceWidth, rodsWidth,
    jointSizeMultiplier,
    \* Camera
    offset, zoom, isAnimating, animStartZoom, animTargetZoom, animProgress,
    animWorldPos, animTargetOffset, animStartOffset,
    \* InputHandler
    selectedObject, dragOffset, isPanning, pressPos,
    \* the frame loop: the step of p.draw that runs next ("update" between
    \* frames), the number of frames started, and the number of ticks: the
    \* frames that got past mechanism.update()
    pc, frame, tick,
    \* HistoryManager, as one record of its fields
    historyManager,
    \* URLStateManager.updateTimeout
    updateTimeout,
    \* the browser: the session history (window.history), its current entry,
    \* the timers that are set, and the next timer id
    browser,
    \* the wall clock, in the unit that tells two timestamps apart; it is
    \* advanced by the tasks that read it
    clock,
    \* history variables: they record what ran, and never steer the program
    lastOp, thrown, events, structural, emitted, fadeSince, animRequest, restored

mechVars == <<anchor, rods, guidePoints, joints, crankAngle, crankSpeed,
              isPlaying, isStretchingMode>>
traceVars == <<tracePaths, fullRodTracePaths>>
styleVars == <<traceWidth, rodsWidth, jointSizeMultiplier>>
camVars == <<offset, zoom, isAnimating, animStartZoom, animTargetZoom,
             animProgress, animWorldPos, animTargetOffset, animStartOffset>>
inputVars == <<selectedObject, dragOffset, isPanning, pressPos>>
histVars == <<historyManager, updateTimeout, browser, clock, restored>>
vars == <<mechVars, traceVars, fadeLifespan, styleVars, camVars, inputVars, histVars, pc, frame,
          tick, lastOp, thrown, events, structural, emitted, fadeSince, animRequest>>

---------------------------------------------------------------------------
\* Bounds of the model.

\* Frames a behaviour may run.
MaxFrames == 3
\* Clicks, drags and calls a behaviour may contain, besides the two below.
MaxEvents == 2
\* Clicks on the Add Rod and Remove Rod buttons a behaviour may contain.
MaxStructural == 3
\* Rods the Add Rod button may grow the chain to.
MaxRods == 4
\* Frames of the continuous-play scenario run past one revolution.
ExtraTicks == 5

\* Frames the draw loop runs past MaxFrames while an animation is in flight: an
\* animation of animDuration takes that many updates of the shortest deltaTime.
SettleFrames == 4
\* Frames run while the browser history is exercised.
HistoryFrames == 1

---------------------------------------------------------------------------
\* Fixed-point arithmetic.

Milli == 10 * 10 * 10

Null == [null |-> TRUE]

Pos(x, y) == [x |-> x, y |-> y]

Min(a, b) == IF a < b THEN a ELSE b
Max(a, b) == IF a > b THEN a ELSE b
Abs(a) == IF a < 0 THEN -a ELSE a

\* a / b rounded to the nearest integer, b > 0.
RoundDiv(a, b) == (2 * a + b) \div (2 * b)

RECURSIVE SqrtSearch(_, _, _)
SqrtSearch(n, lo, hi) ==
    IF lo >= hi THEN lo
    ELSE LET mid == (lo + hi + 1) \div 2
         IN  IF mid * mid <= n THEN SqrtSearch(n, mid, hi)
                               ELSE SqrtSearch(n, lo, mid - 1)

\* Math.sqrt, rounded down.
Sqrt(n) == SqrtSearch(n, 0, Min(n, 46340))

\* Vector.dist, in tenths of a world unit.
Dist10(a, b) == Sqrt(100 * ((a.x - b.x) * (a.x - b.x) + (a.y - b.y) * (a.y - b.y)))

\* Vector.dist, rounded to a world unit.
Dist(a, b) == RoundDiv(Dist10(a, b), 10)

\* MathUtils.constrain
Constrain(value, lo, hi) == Min(Max(value, lo), hi)

\* Math.cos of k crank steps, in thousandths (one entry per step of a round).
CosTable == <<
    1000, 1000, 999, 999, 998, 996, 995, 993, 990, 988, 985, 982, 978, 974, 970,
    966, 961, 956, 951, 946, 940, 934, 927, 921, 914, 906, 899, 891, 883, 875,
    866, 857, 848, 839, 829, 819, 809, 799, 788, 777, 766, 755, 743, 731, 719,
    707, 695, 682, 669, 656, 643, 629, 616, 602, 588, 574, 559, 545, 530, 515,
    500, 485, 469, 454, 438, 423, 407, 391, 375, 358, 342, 326, 309, 292, 276,
    259, 242, 225, 208, 191, 174, 156, 139, 122, 105, 87, 70, 52, 35, 17,
    0, -17, -35, -52, -70, -87, -105, -122, -139, -156, -174, -191, -208, -225, -242,
    -259, -276, -292, -309, -326, -342, -358, -375, -391, -407, -423, -438, -454, -469, -485,
    -500, -515, -530, -545, -559, -574, -588, -602, -616, -629, -643, -656, -669, -682, -695,
    -707, -719, -731, -743, -755, -766, -777, -788, -799, -809, -819, -829, -839, -848, -857,
    -866, -875, -883, -891, -899, -906, -914, -921, -927, -934, -940, -946, -951, -956, -961,
    -966, -970, -974, -978, -982, -985, -988, -990, -993, -995, -996, -998, -999, -999, -1000,
    -1000, -1000, -999, -999, -998, -996, -995, -993, -990, -988, -985, -982, -978, -974, -970,
    -966, -961, -956, -951, -946, -940, -934, -927, -921, -914, -906, -899, -891, -883, -875,
    -866, -857, -848, -839, -829, -819, -809, -799, -788, -777, -766, -755, -743, -731, -719,
    -707, -695, -682, -669, -656, -643, -629, -616, -602, -588, -574, -559, -545, -530, -515,
    -500, -485, -469, -454, -438, -423, -407, -391, -375, -358, -342, -326, -309, -292, -276,
    -259, -242, -225, -208, -191, -174, -156, -139, -122, -105, -87, -70, -52, -35, -17,
    0, 17, 35, 52, 70, 87, 105, 122, 139, 156, 174, 191, 208, 225, 242,
    259, 276, 292, 309, 326, 342, 358, 375, 391, 407, 423, 438, 454, 469, 485,
    500, 515, 530, 545, 559, 574, 588, 602, 616, 629, 643, 656, 669, 682, 695,
    707, 719, 731, 743, 755, 766, 777, 788, 799, 809, 819, 829, 839, 848, 857,
    866, 875, 883, 891, 899, 906, 914, 921, 927, 934, 940, 946, 951, 956, 961,
    966, 970, 974, 978, 982, 985, 988, 990, 993, 995, 996, 998, 999, 999, 1000
>>

FRAMES_PER_ROUND == 360

CosStep(k) == CosTable[(k % FRAMES_PER_ROUND) + 1]
SinStep(k) == CosStep(k - 90)

\* The (cos, sin) of the crank angle after k steps.
CrankDirection(k) == [c |-> CosStep(k), s |-> SinStep(k)]

\* The (cos, sin) of Math.atan2(to.y - from.y, to.x - from.x); atan2(0, 0) is 0.
AimDirection(from, to) ==
    LET dx == to.x - from.x
        dy == to.y - from.y
        d10 == Dist10(from, to)
    IN  IF dx = 0 /\ dy = 0 THEN [c |-> Milli, s |-> 0]
        ELSE [c |-> RoundDiv(10 * Milli * dx, d10), s |-> RoundDiv(10 * Milli * dy, d10)]

\* from + length * (cos, sin)
Endpoint(from, length, dir) ==
    Pos(from.x + RoundDiv(length * dir.c, Milli), from.y + RoundDiv(length * dir.s, Milli))

\* The golden ratio of addRod, in thousandths.
PhiMilli == 1618

---------------------------------------------------------------------------
\* Rod, GuidePoint

\* new Rod(id, length)
Rod(id, length) ==
    [id |-> id, length |-> length, angle |-> [c |-> Milli, s |-> 0],
     isTracing |-> FALSE, isFullRodTracing |-> FALSE]

\* new GuidePoint(id, x, y)
GuidePoint(id, x, y) == [id |-> id, pos |-> Pos(x, y)]

Last(seq) == seq[Len(seq)]
Front(seq) == SubSeq(seq, 1, Len(seq) - 1)

---------------------------------------------------------------------------
\* LinkageMechanism

\* The minimum miswritten to stop at the guide point, without the clearances.
MinLengthToGuide(parentJointPos, guide) == Dist(parentJointPos, guide.pos)

\* The length a follower rod needs in stretching mode: the distance from its
\* parent joint to its guide point, plus the guide's sleeve, plus the joint's
\* radius.
MinLength(parentJointPos, guide) ==
    LET distanceToGP == Dist(parentJointPos, guide.pos)
        gpSize == rodsWidth * 5
        sleeveExtension == gpSize
        jointRadius == RoundDiv(traceWidth * jointSizeMultiplier[1], 2)
    IN  distanceToGP + sleeveExtension + jointRadius

\* The stretching rule miswritten to fit the rod to the guide point each time.
StretchedLengthFitted(rod, parentJointPos, guide, stretch) ==
    IF stretch /\ jointSizeMultiplier # <<>>
    THEN MinLength(parentJointPos, guide)
    ELSE rod.length

\* The length of follower rod `rod` after the stretching rule of updateJoints.
\* When traceSystem.jointSizeMultiplier is undefined (<<>>), minLength is NaN
\* and `minLength > length` is false.
StretchedLength(rod, parentJointPos, guide, stretch) ==
    IF /\ stretch
       /\ jointSizeMultiplier # <<>>
       /\ MinLength(parentJointPos, guide) > rod.length
    THEN MinLength(parentJointPos, guide)
    ELSE rod.length

\* The loop of updateJoints over the follower rods, from rod i (1-based) on.
\* Reading guidePoints[i - 1].pos of a guide point that does not exist throws.
RECURSIVE SolveFollowers(_, _, _, _, _)
SolveFollowers(i, rs, js, gps, stretch) ==
    IF i > Len(rs) THEN [rods |-> rs, joints |-> js, threw |-> FALSE]
    ELSE IF i - 1 > Len(gps) THEN [rods |-> rs, joints |-> js, threw |-> TRUE]
    ELSE LET parentJointPos == js[i - 1]
             guide == gps[i - 1]
             angle == AimDirection(parentJointPos, guide.pos)
             length == StretchedLength(rs[i], parentJointPos, guide, stretch)
             rs2 == [rs EXCEPT ![i].angle = angle, ![i].length = length]
             nextJointPos == Endpoint(parentJointPos, length, angle)
         IN  SolveFollowers(i + 1, rs2, Append(js, nextJointPos), gps, stretch)

\* update() miswritten to turn the crank whether playing or not.
AdvancedAlways(angle, speed, playing) == angle + speed

\* update(): the crank angle after the step, which only a playing mechanism takes.
Advanced(angle, speed, playing) == IF playing THEN angle + speed ELSE angle

\* updateJoints(): the rods (angles, and lengths grown by stretching) and the
\* joints it leaves, and whether it threw.  With no rod at all, writing
\* rods[0].angle throws after joints was emptied.
UpdateJoints(anchorPos, rs, gps, angle, stretch) ==
    IF Len(rs) = 0 THEN [rods |-> rs, joints |-> <<>>, threw |-> TRUE]
    ELSE LET dir == CrankDirection(angle)
             rs1 == [rs EXCEPT ![1].angle = dir]
             crankEndpoint == Endpoint(anchorPos, rs[1].length, dir)
         IN  SolveFollowers(2, rs1, <<crankEndpoint>>, gps, stretch)

\* The new rod's length: the previous rod's length times or divided by PHI.
NewRodLength(previousRodLength, isLarger) ==
    IF isLarger THEN RoundDiv(previousRodLength * PhiMilli, Milli)
    ELSE RoundDiv(previousRodLength * Milli, PhiMilli)

\* The guide point addRod places for a new rod of length newLength: at the
\* previous guide point's x, at the golden-section distance from the last joint
\* when that x is within reach, else at the last joint's y.
NewGuidePoint(newId, newLength, previousGP, lastJointPos, largerSegmentFirst, positive) ==
    LET gpX == previousGP.pos.x
        shortSegment == RoundDiv(newLength * Milli, Milli + PhiMilli)
        longSegment == newLength - shortSegment
        distanceToGP == IF largerSegmentFirst THEN longSegment ELSE shortSegment
        deltaX == gpX - lastJointPos.x
        deltaYSquared == distanceToGP * distanceToGP - deltaX * deltaX
    IN  IF deltaYSquared < 0 THEN GuidePoint(newId, gpX, lastJointPos.y)
        ELSE LET deltaY == Sqrt(deltaYSquared)
             IN  GuidePoint(newId, gpX,
                            lastJointPos.y + (IF positive THEN deltaY ELSE -deltaY))

\* addRod miswritten to leave tracing on on the previous tip.
RodsWithNewRodBothTracing(newId, newLength) ==
    Append(rods, [Rod(newId, newLength) EXCEPT !.isTracing = TRUE])

\* The rods after addRod switched tracing off on the tip and pushed the new rod.
RodsWithNewRod(newId, newLength) ==
    Append([rods EXCEPT ![Len(rods)].isTracing = FALSE],
           [Rod(newId, newLength) EXCEPT !.isTracing = TRUE])

\* addRod(), with the three Math.random() draws as parameters.  It returns at
\* once while joints is empty.  The rod is pushed before the previous guide point
\* is read: with no guide point (a crank-only chain) that read throws, and the
\* rod stays pushed without a guide point.  Sets `thrown`.
AddRod(isLarger, largerSegmentFirst, positive) ==
    LET newId == Len(rods)
        lastJointPos == Last(joints)
        newLength == NewRodLength(Last(rods).length, isLarger)
    IN  IF Len(joints) = 0
        THEN /\ thrown' = FALSE
             /\ UNCHANGED <<rods, guidePoints>>
        ELSE /\ rods' = RodsWithNewRod(newId, newLength)
             /\ IF Len(guidePoints) = 0
                THEN /\ thrown' = TRUE
                     /\ UNCHANGED guidePoints
                ELSE /\ thrown' = FALSE
                     /\ guidePoints' = Append(guidePoints,
                            NewGuidePoint(newId, newLength, Last(guidePoints),
                                          lastJointPos, largerSegmentFirst, positive))

\* The rods after removeRod popped the tip and switched tracing on on the new tip.
RodsWithoutTip == [Front(rods) EXCEPT ![Len(rods) - 1].isTracing = TRUE]

\* removeRod miswritten without its floor of one rod.
RemoveRodUnguarded ==
    /\ rods' = Front(rods)
    /\ guidePoints' = IF Len(guidePoints) = 0 THEN guidePoints ELSE Front(guidePoints)

\* removeRod(); guidePoints.pop() of an empty array leaves it empty.
RemoveRod ==
    IF Len(rods) > 1
    THEN /\ rods' = RodsWithoutTip
         /\ guidePoints' = IF Len(guidePoints) = 0 THEN guidePoints ELSE Front(guidePoints)
    ELSE UNCHANGED <<rods, guidePoints>>

---------------------------------------------------------------------------
\* TraceSystem

\* The key of tracePaths the draw loop records rod i (0-based) under.
Key(i) == ToString(i)

\* The key of fullRodTracePaths the draw loop records rod i (0-based) under.
FullRodKey(i) == "fullrod_" \o ToString(i)

fullRodTraceSegments == 8

\* paths[key], or a fresh array when the key is not there yet.
PathOf(paths, key) == IF key \in DOMAIN paths THEN paths[key] ELSE <<>>

\* paths with `entry` pushed onto paths[key].
Pushed(paths, key, entry) ==
    [k \in DOMAIN paths \cup {key} |->
        IF k = key THEN Append(PathOf(paths, key), entry) ELSE paths[k]]

\* addTracePoint miswritten to push a sample that is one tick old already.
AddTracePointAged(paths, rodId, position) ==
    Pushed(paths, rodId, [pos |-> position, age |-> 1])

\* addTracePoint(rodId, position)
AddTracePoint(paths, rodId, position) ==
    Pushed(paths, rodId, [pos |-> position, age |-> 0])

\* addFullRodTrace(rodId, startPos, endPos): fullRodTraceSegments + 1 points
\* along the rod, as one frame of age 0.
AddFullRodTrace(paths, rodId, startPos, endPos) ==
    LET tracePoints ==
            [i \in 1..(fullRodTraceSegments + 1) |->
                Pos(startPos.x + RoundDiv((endPos.x - startPos.x) * (i - 1), fullRodTraceSegments),
                    startPos.y + RoundDiv((endPos.y - startPos.y) * (i - 1), fullRodTraceSegments))]
    IN  Pushed(paths, rodId, [points |-> tracePoints, age |-> 0])

\* The aging loop miswritten to evict a sample once its age reaches the lifespan.
AgePathEvictingAtLifespan(path, lifespan) ==
    LET aged == [j \in 1..Len(path) |-> [path[j] EXCEPT !.age = @ + 1]]
        expired == {j \in 1..Len(path) : aged[j].age >= lifespan}
    IN  IF expired = {} THEN aged
        ELSE LET i == CHOOSE j \in expired : \A k \in expired : k <= j
             IN  SubSeq(aged, i + 1, Len(aged))

\* The aging loop miswritten to splice off the one sample it found too old.
AgePathSplicingOne(path, lifespan) ==
    LET aged == [j \in 1..Len(path) |-> [path[j] EXCEPT !.age = @ + 1]]
        expired == {j \in 1..Len(path) : aged[j].age > lifespan}
    IN  IF expired = {} THEN aged
        ELSE LET i == CHOOSE j \in expired : \A k \in expired : k <= j
             IN  SubSeq(aged, 1, i - 1) \o SubSeq(aged, i + 1, Len(aged))

\* One point path after update(): walking from the newest sample to the oldest,
\* each sample is aged, and at the first one found older than the lifespan it
\* and everything before it are spliced off.
AgePath(path, lifespan) ==
    LET aged == [j \in 1..Len(path) |-> [path[j] EXCEPT !.age = @ + 1]]
        expired == {j \in 1..Len(path) : aged[j].age > lifespan}
    IN  IF expired = {} THEN aged
        ELSE LET i == CHOOSE j \in expired : \A k \in expired : k <= j
             IN  SubSeq(aged, i + 1, Len(aged))

\* The shift loop miswritten to keep a frame until it is older than the lifespan.
RECURSIVE ShiftFadedLate(_, _)
ShiftFadedLate(path, lifespan) ==
    IF Len(path) > 0 /\ path[1].age > lifespan
    THEN ShiftFadedLate(Tail(path), lifespan)
    ELSE path

\* path.shift() while the head's age is at least the lifespan.
RECURSIVE ShiftFaded(_, _)
ShiftFaded(path, lifespan) ==
    IF Len(path) > 0 /\ path[1].age >= lifespan
    THEN ShiftFaded(Tail(path), lifespan)
    ELSE path

\* One full-rod path after update(): every frame is aged, then the faded
\* frames are shifted off the head.
AgeFullRodPath(path, lifespan) ==
    ShiftFaded([j \in 1..Len(path) |-> [path[j] EXCEPT !.age = @ + 1]], lifespan)

\* paths without paths[key] (delete paths[key]).
Deleted(paths, key) == [k \in DOMAIN paths \ {key} |-> paths[k]]

\* clearTrace(rodId), rodId not null: deletes the key rodId from both maps.
ClearTrace(rodId) ==
    /\ tracePaths' = Deleted(tracePaths, rodId)
    /\ fullRodTracePaths' = Deleted(fullRodTracePaths, rodId)
    /\ emitted' = Deleted(emitted, rodId)

\* updateFadeLifespan(framesPerRound)
UpdateFadeLifespan(framesPerRound) ==
    /\ fadeLifespan' = framesPerRound
    /\ fadeSince' = IF framesPerRound = fadeLifespan THEN fadeSince ELSE tick + 1

\* map miswritten to run from stop2 to start2.
MapReversed(value, start1, stop1, start2, stop2) ==
    stop2 * Milli + (start2 - stop2) * RoundDiv((value - start1) * Milli, stop1 - start1)

\* MathUtils.map(value, start1, stop1, start2, stop2), in thousandths: the
\* quotient (value - start1) / (stop1 - start1) is rounded, to a thousandth
\* here, before it is multiplied.
Map(value, start1, stop1, start2, stop2) ==
    start2 * Milli + (stop2 - start2) * RoundDiv((value - start1) * Milli, stop1 - start1)

\* The alpha draw() strokes a sample or a full-rod frame of the given age
\* with, in thousandths.
Alpha(age) == Map(age, 0, fadeLifespan, 255, 0)

\* The ages of what draw() finds in the buffers.
AgesIn(paths) ==
    UNION {{paths[k][j].age : j \in 1..Len(paths[k])} : k \in DOMAIN paths}

DrawnAges == AgesIn(tracePaths) \cup AgesIn(fullRodTracePaths)

---------------------------------------------------------------------------
\* p.draw: the sampling loop

\* The rods (1-based) the sampling loop records a point for.
PointSampled == {i \in 1..Len(rods) : rods[i].isTracing /\ i <= Len(joints)}

\* The rods (1-based) the sampling loop records a full-rod frame for.
FullRodSampled ==
    {i \in 1..Len(rods) : rods[i].isFullRodTracing /\ i <= Len(joints)}

\* The start of rod i (1-based): the anchor for the crank, else the parent joint.
StartPos(i) == IF i = 1 THEN anchor.pos ELSE joints[i - 1]

\* The sampling loop miswritten to record where each rod starts.
RECURSIVE SamplePointsAtStart(_, _)
SamplePointsAtStart(paths, i) ==
    IF i > Len(rods) THEN paths
    ELSE SamplePointsAtStart(IF i \in PointSampled
                             THEN AddTracePoint(paths, Key(i - 1), StartPos(i))
                             ELSE paths, i + 1)

RECURSIVE SamplePoints(_, _)
SamplePoints(paths, i) ==
    IF i > Len(rods) THEN paths
    ELSE SamplePoints(IF i \in PointSampled
                      THEN AddTracePoint(paths, Key(i - 1), joints[i])
                      ELSE paths, i + 1)

RECURSIVE SampleFullRods(_, _)
SampleFullRods(paths, i) ==
    IF i > Len(rods) THEN paths
    ELSE SampleFullRods(IF i \in FullRodSampled
                        THEN AddFullRodTrace(paths, FullRodKey(i - 1), StartPos(i), joints[i])
                        ELSE paths, i + 1)

\* The record of what was sampled: per key, the tick and position of each
\* sample pushed since the key was last cleared.  For a full-rod frame the
\* position is that of the rod's end, the frame's last point.
RecordedAt(em, key, i) == Pushed(em, key, [tick |-> tick, pos |-> joints[i]])

RECURSIVE RecordEmitted(_, _)
RecordEmitted(em, i) ==
    IF i > Len(rods) THEN em
    ELSE LET withPoint == IF i \in PointSampled THEN RecordedAt(em, Key(i - 1), i) ELSE em
         IN  RecordEmitted(IF i \in FullRodSampled
                           THEN RecordedAt(withPoint, FullRodKey(i - 1), i)
                           ELSE withPoint, i + 1)

---------------------------------------------------------------------------
\* Bounds queries

MinOf(S) == CHOOSE v \in S : \A w \in S : v <= w
MaxOf(S) == CHOOSE v \in S : \A w \in S : v >= w

\* The box around a non-empty set of points, padded.
BoundsOf(points, padding) ==
    LET xs == {q.x : q \in points}
        ys == {q.y : q \in points}
    IN  [minX |-> MinOf(xs) - padding, maxX |-> MaxOf(xs) + padding,
         minY |-> MinOf(ys) - padding, maxY |-> MaxOf(ys) + padding,
         width |-> MaxOf(xs) - MinOf(xs) + padding * 2,
         height |-> MaxOf(ys) - MinOf(ys) + padding * 2,
         centerX |-> RoundDiv(MinOf(xs) + MaxOf(xs), 2),
         centerY |-> RoundDiv(MinOf(ys) + MaxOf(ys), 2)]

\* LinkageMechanism.calculateBounds(): anchor, joints and guide points.
MechanismBounds ==
    BoundsOf({anchor.pos} \cup {joints[i] : i \in 1..Len(joints)}
                 \cup {guidePoints[i].pos : i \in 1..Len(guidePoints)}, 30)

\* The positions of the samples of one point path, and of one full-rod path.
PathPositions(path) == {path[j].pos : j \in 1..Len(path)}
FullRodPathPositions(path) ==
    UNION {{path[j].points[n] : n \in 1..(fullRodTraceSegments + 1)} : j \in 1..Len(path)}

TracePositions ==
    UNION {PathPositions(tracePaths[k]) : k \in DOMAIN tracePaths}
    \cup UNION {FullRodPathPositions(fullRodTracePaths[k]) : k \in DOMAIN fullRodTracePaths}

\* TraceSystem.calculateBounds(): every live sample; null without any.
TraceBounds == IF TracePositions = {} THEN Null ELSE BoundsOf(TracePositions, 10)

\* The bounds the Fit View button fits: the union of both boxes.
FitViewBounds ==
    IF TraceBounds = Null THEN MechanismBounds
    ELSE LET t == TraceBounds
             m == MechanismBounds
             minX == Min(t.minX, m.minX)
             maxX == Max(t.maxX, m.maxX)
             minY == Min(t.minY, m.minY)
             maxY == Max(t.maxY, m.maxY)
         IN  [minX |-> minX, maxX |-> maxX, minY |-> minY, maxY |-> maxY,
              width |-> maxX - minX, height |-> maxY - minY,
              centerX |-> RoundDiv(minX + maxX, 2), centerY |-> RoundDiv(minY + maxY, 2)]

---------------------------------------------------------------------------
\* Camera.  zoom is in hundredths, offset in hundredths of a pixel; screen
\* positions are in hundredths of a pixel, world positions in world units.

Centi == 10 * 10

maxZoom == 500
minZoom == 10

\* animDuration, in milliseconds
animDuration == 300

\* The canvas (the window's inner size), in pixels.
CanvasWidth == 8 * Centi
CanvasHeight == 6 * Centi

\* worldToScreen(worldPos) under a given offset and zoom
WorldToScreenAt(worldPos, off, z) == Pos(worldPos.x * z + off.x, worldPos.y * z + off.y)

\* worldToScreen(worldPos)
WorldToScreen(worldPos) == WorldToScreenAt(worldPos, offset, zoom)

\* screenToWorld miswritten to divide without taking the offset off.
ScreenToWorldUnshifted(x, y) == Pos(RoundDiv(x * Centi, zoom), RoundDiv(y * Centi, zoom))

\* screenToWorld(x, y), x and y in pixels
ScreenToWorld(x, y) ==
    Pos(RoundDiv(x * Centi - offset.x, zoom), RoundDiv(y * Centi - offset.y, zoom))

\* The zoom zoomAt and animatedZoomAt aim at: zoom * zoomFactor, constrained.
TargetZoom(zoomFactor) == Constrain(RoundDiv(zoom * zoomFactor, Centi), minZoom, maxZoom)

\* The anchoring miswritten to keep the offset while the zoom changes.
AnchoredOffsetKept(worldPos, newZoom) == offset

\* The offset that keeps worldPos at its screen position when the zoom goes
\* from the current zoom to newZoom.
AnchoredOffset(worldPos, newZoom) ==
    LET screenX == worldPos.x * zoom + offset.x
        screenY == worldPos.y * zoom + offset.y
    IN  Pos(screenX - worldPos.x * newZoom, screenY - worldPos.y * newZoom)

\* 1 - (1 - t)^3, t and the result in hundredths
EaseOutCubic(t) == Centi - RoundDiv((Centi - t) * (Centi - t) * (Centi - t), Centi * Centi)

\* start + (target - start) * eased
Interpolate(start, target, eased) == start + RoundDiv((target - start) * eased, Centi)

\* The progress miswritten to stay where it is.
NextProgressStalled(deltaTime) == animProgress

\* The progress after update(deltaTime), deltaTime in milliseconds.
NextProgress(deltaTime) ==
    Min(Centi, animProgress + RoundDiv(deltaTime * Centi, animDuration))

\* update(deltaTime)
CameraUpdate(deltaTime) ==
    IF ~isAnimating THEN UNCHANGED camVars
    ELSE LET t == NextProgress(deltaTime)
             eased == EaseOutCubic(t)
             newZoom == Interpolate(animStartZoom, animTargetZoom, eased)
         IN  /\ animProgress' = t
             /\ isAnimating' = (t < Centi)
             /\ UNCHANGED <<animStartZoom, animTargetZoom, animWorldPos>>
             /\ IF animTargetOffset # Null /\ animStartOffset # Null
                THEN /\ zoom' = newZoom
                     /\ offset' = Pos(Interpolate(animStartOffset.x, animTargetOffset.x, eased),
                                      Interpolate(animStartOffset.y, animTargetOffset.y, eased))
                     /\ IF t >= Centi
                        THEN animTargetOffset' = Null /\ animStartOffset' = Null
                        ELSE UNCHANGED <<animTargetOffset, animStartOffset>>
                ELSE IF animWorldPos # Null
                THEN /\ zoom' = newZoom
                     /\ offset' = AnchoredOffset(animWorldPos, newZoom)
                     /\ UNCHANGED <<animTargetOffset, animStartOffset>>
                ELSE UNCHANGED <<zoom, offset, animTargetOffset, animStartOffset>>

\* animatedZoomAt(worldPos, zoomFactor)
AnimatedZoomAt(worldPos, zoomFactor) ==
    /\ animStartZoom' = zoom
    /\ animTargetZoom' = TargetZoom(zoomFactor)
    /\ animProgress' = 0
    /\ animWorldPos' = worldPos
    /\ isAnimating' = TRUE
    /\ UNCHANGED <<offset, zoom, animTargetOffset, animStartOffset>>

\* zoomAt(worldPos, zoomFactor)
ZoomAt(worldPos, zoomFactor) ==
    /\ offset' = AnchoredOffset(worldPos, TargetZoom(zoomFactor))
    /\ zoom' = TargetZoom(zoomFactor)
    /\ UNCHANGED <<isAnimating, animStartZoom, animTargetZoom, animProgress,
                   animWorldPos, animTargetOffset, animStartOffset>>

\* The zoom fitToView fits the bounds with: the smaller axis ratio, constrained.
FitZoom(bounds, canvasWidth, canvasHeight) ==
    LET margin == 50
        zoomX == RoundDiv((canvasWidth - margin * 2) * Centi, bounds.width)
        zoomY == RoundDiv((canvasHeight - margin * 2) * Centi, bounds.height)
    IN  Constrain(Min(zoomX, zoomY), minZoom, maxZoom)

\* The centring miswritten to put the bounds' corner at the canvas centre.
FitOffsetOfCorner(bounds, canvasWidth, canvasHeight) ==
    LET targetZoom == FitZoom(bounds, canvasWidth, canvasHeight)
    IN  Pos(RoundDiv(canvasWidth * Centi, 2) - bounds.minX * targetZoom,
            RoundDiv(canvasHeight * Centi, 2) - bounds.minY * targetZoom)

\* The offset fitToView centres the bounds with.
FitOffset(bounds, canvasWidth, canvasHeight) ==
    LET targetZoom == FitZoom(bounds, canvasWidth, canvasHeight)
    IN  Pos(RoundDiv(canvasWidth * Centi, 2) - bounds.centerX * targetZoom,
            RoundDiv(canvasHeight * Centi, 2) - bounds.centerY * targetZoom)

\* fitToView(bounds, canvasWidth, canvasHeight, animate)
FitToView(bounds, canvasWidth, canvasHeight, animate) ==
    IF animate
    THEN /\ animStartZoom' = zoom
         /\ animTargetZoom' = FitZoom(bounds, canvasWidth, canvasHeight)
         /\ animProgress' = 0
         /\ animWorldPos' = Pos(bounds.centerX, bounds.centerY)
         /\ isAnimating' = TRUE
         /\ animTargetOffset' = FitOffset(bounds, canvasWidth, canvasHeight)
         /\ animStartOffset' = offset
         /\ UNCHANGED <<offset, zoom>>
    ELSE /\ zoom' = FitZoom(bounds, canvasWidth, canvasHeight)
         /\ offset' = FitOffset(bounds, canvasWidth, canvasHeight)
         /\ UNCHANGED <<isAnimating, animStartZoom, animTargetZoom, animProgress,
                        animWorldPos, animTargetOffset, animStartOffset>>

\* pan(deltaX, deltaY), in pixels
CameraPan(deltaX, deltaY) ==
    /\ offset' = Pos(offset.x + deltaX * Centi, offset.y + deltaY * Centi)
    /\ UNCHANGED <<zoom, isAnimating, animStartZoom, animTargetZoom, animProgress,
                   animWorldPos, animTargetOffset, animStartOffset>>

---------------------------------------------------------------------------
\* StateSerializer.importState

\* A state object: the anchor with the crank, the follower rods each with its
\* guide point, the camera, and the stretching flag.
StateObject(anchorPos, crankLength, crankTracing, followers, cam, stretching) ==
    [version |-> "1.0",
     anchor |-> [x |-> anchorPos.x, y |-> anchorPos.y,
                 crank |-> [length |-> crankLength, isTracing |-> crankTracing,
                            isFullRodTracing |-> FALSE]],
     rods |-> followers,
     camera |-> cam,
     isStretchingMode |-> stretching]

\* exportState(): the guide point written for a follower rod is the first one
\* whose id is the rod's; a rod without one is written without a guide point.
ExportedGuidePoint(rod) ==
    LET found == {j \in 1..Len(guidePoints) : guidePoints[j].id = rod.id}
    IN  IF found = {} THEN Null
        ELSE guidePoints[CHOOSE j \in found : \A k \in found : j <= k].pos

\* exportState()
ExportState ==
    [version |-> "1.0",
     anchor |-> [x |-> anchor.pos.x, y |-> anchor.pos.y,
                 crank |-> [length |-> rods[1].length, isTracing |-> rods[1].isTracing,
                            isFullRodTracing |-> rods[1].isFullRodTracing]],
     rods |-> [i \in 1..(Len(rods) - 1) |->
                  [id |-> rods[i + 1].id, length |-> rods[i + 1].length,
                   isTracing |-> rods[i + 1].isTracing,
                   isFullRodTracing |-> rods[i + 1].isFullRodTracing,
                   guidePoint |-> ExportedGuidePoint(rods[i + 1])]],
     camera |-> [offsetX |-> offset.x, offsetY |-> offset.y, zoom |-> zoom],
     isStretchingMode |-> isStretchingMode]

\* The rods importState builds: the crank from state.anchor.crank, then one per
\* entry of state.rods.
ImportedRods(state) ==
    <<[Rod(0, state.anchor.crank.length) EXCEPT
          !.isTracing = state.anchor.crank.isTracing,
          !.isFullRodTracing = state.anchor.crank.isFullRodTracing]>>
    \o [i \in 1..Len(state.rods) |->
          [Rod(state.rods[i].id, state.rods[i].length) EXCEPT
              !.isTracing = state.rods[i].isTracing,
              !.isFullRodTracing = state.rods[i].isFullRodTracing]]

\* The entries of state.rods that carry a guide point.
HasGuidePoint(rodData) == rodData.guidePoint # Null

\* The guide points importState builds, one per entry of state.rods that
\* carries a guide point.
ImportedGuidePoints(state) ==
    LET guided == SelectSeq(state.rods, HasGuidePoint)
    IN  [i \in 1..Len(guided) |->
            GuidePoint(guided[i].id, guided[i].guidePoint.x, guided[i].guidePoint.y)]

\* The camera zoom importState sets.
ImportedZoom(state) == state.camera.zoom

\* The version check miswritten to let every state through.
VersionAcceptedAlways(state) == TRUE

\* importState's version check: `!state.version || state.version !== '1.0'`
\* rejects the state.
VersionAccepted(state) == state.version = "1.0"

\* importState(state): a state whose version is missing or is not '1.0' is
\* rejected by a throw before anything is touched; else rods, guide points,
\* anchor, camera offset and zoom and the stretching flag are taken from the
\* state, then updateJoints() runs.  The crank angle, the traces and a camera
\* animation in flight are left as they are.  A state without anchor.crank
\* makes the read of state.anchor.crank.length throw, after rods and
\* guidePoints were emptied and the anchor was moved.
ImportState(state) ==
    IF ~VersionAccepted(state)
    THEN /\ thrown' = TRUE
         /\ UNCHANGED <<mechVars, camVars>>
    ELSE IF "crank" \notin DOMAIN state.anchor
    THEN /\ rods' = <<>>
         /\ guidePoints' = <<>>
         /\ anchor' = [pos |-> Pos(state.anchor.x, state.anchor.y)]
         /\ thrown' = TRUE
         /\ UNCHANGED <<joints, crankAngle, crankSpeed, isPlaying, isStretchingMode, camVars>>
    ELSE \E solved \in {UpdateJoints(Pos(state.anchor.x, state.anchor.y), ImportedRods(state),
                                     ImportedGuidePoints(state), crankAngle,
                                     state.isStretchingMode)} :
             /\ anchor' = [pos |-> Pos(state.anchor.x, state.anchor.y)]
             /\ guidePoints' = ImportedGuidePoints(state)
             /\ offset' = Pos(state.camera.offsetX, state.camera.offsetY)
             /\ zoom' = ImportedZoom(state)
             /\ isStretchingMode' = state.isStretchingMode
             /\ rods' = solved.rods
             /\ joints' = solved.joints
             /\ thrown' = solved.threw
             /\ UNCHANGED <<crankAngle, crankSpeed, isPlaying, isAnimating, animStartZoom,
                            animTargetZoom, animProgress, animWorldPos, animTargetOffset,
                            animStartOffset>>

---------------------------------------------------------------------------
\* HistoryManager, URLStateManager's debounce timer, and the browser's session
\* history and timers

\* A timer handle that holds no timer: null, which clearTimeout ignores.  The
\* browser's timer ids are positive.
NoTimer == 0

\* exportState() at the time `now`: the state object carries the time of the
\* call in its timestamp.  (The trace colour it also carries is not modelled:
\* no action of the model changes it.)
ExportStateAt(now) == [timestamp |-> now] @@ ExportState

\* The state object without its timestamp: what it says of the mechanism, the
\* camera and the settings.
Content(state) == [f \in DOMAIN state \ {"timestamp"} |-> state[f]]

\* The three objects the history code works on, as one value.
Web == [hm |-> historyManager, ut |-> updateTimeout, br |-> browser]

\* The timers that fire before a timer set now for `callback`.  The URL
\* update is delayed by 50 ms and a push by 300 ms or more, so a push timer
\* fires after the URL timers that are pending when it is set; other pairs of
\* timers fire in either order.
FiresAfter(br, callback) ==
    IF callback = "pushState"
    THEN {t.id : t \in {u \in br.timers : u.callback = "encodeStateToURL"}}
    ELSE {}

\* setTimeout(callback, delay): the timer is set under the next id.
SetTimeout(br, callback) ==
    [br EXCEPT !.timers = @ \cup {[id |-> br.nextTimer, callback |-> callback,
                                   after |-> FiresAfter(br, callback)]},
               !.nextTimer = @ + 1]

\* The timer's time has come: the timers that fire before it are gone.
Due(br, timer) == timer \in br.timers /\ \A t \in br.timers : t.id \notin timer.after

\* clearTimeout(id)
ClearTimeout(br, id) == [br EXCEPT !.timers = {t \in @ : t.id # id}]

\* window.history.pushState(state, '', url): the entries after the current one
\* are dropped, the new entry is appended and becomes the current one.  madeAs
\* is the index the entry was made with, kept for the record.
HistoryPushState(br, ourIndex) ==
    [br EXCEPT !.entries = Append(SubSeq(@, 1, br.index),
                                  [state |-> [ourIndex |-> ourIndex], madeAs |-> ourIndex]),
               !.index = @ + 1]

\* window.history.replaceState(state, '', url): the current entry's state is
\* replaced.
HistoryReplaceState(br, state) == [br EXCEPT !.entries[br.index].state = state]

\* _pushState() with the state exportState() returned: skipped when the state's
\* JSON string is the last one pushed; else the state is stored after the
\* current index, the stack is truncated there, and the browser gets an entry
\* holding the index.
PushState(web, state) ==
    IF state = web.hm.lastPushedState
    THEN web
    ELSE LET historyIndex == web.hm.historyIndex + 1
         IN  [web EXCEPT !.hm.historyIndex = historyIndex,
                         !.hm.stateHistory = Append(SubSeq(@, 1, historyIndex), state),
                         !.hm.lastPushedState = state,
                         !.br = HistoryPushState(@, historyIndex)]

\* _replaceState() with the state exportState() returned: the state is stored
\* at the current index (0 on the first call), and the browser's current entry
\* gets the index.
ReplaceState(web, state) ==
    LET historyIndex == IF web.hm.historyIndex = -1 THEN 0 ELSE web.hm.historyIndex
    IN  [web EXCEPT !.hm.historyIndex = historyIndex,
                    !.hm.stateHistory = [i \in 1..Max(Len(@), historyIndex + 1) |->
                                            IF i = historyIndex + 1 THEN state ELSE @[i]],
                    !.hm.lastPushedState = state,
                    !.br.entries[web.br.index] =
                        [state |-> [ourIndex |-> historyIndex], madeAs |-> historyIndex]]

\* What pushToHistoryNow and replaceHistoryNow do first: a pending push is
\* cancelled.
PendingPushCleared(web) ==
    [web EXCEPT !.br = ClearTimeout(@, web.hm.pendingPush), !.hm.pendingPush = NoTimer]

\* pushToHistoryNow()
PushToHistoryNow(web, state) ==
    IF web.hm.isRestoringFromHistory THEN web
    ELSE PushState(PendingPushCleared(web), state)

\* replaceHistoryNow()
ReplaceHistoryNow(web, state) ==
    IF web.hm.isRestoringFromHistory THEN web
    ELSE ReplaceState(PendingPushCleared(web), state)

\* schedulePushToHistory miswritten to leave the previous push pending.
SchedulePushToHistoryKept(web) ==
    IF web.hm.isRestoringFromHistory THEN web
    ELSE [web EXCEPT !.hm.pendingPush = web.br.nextTimer,
                     !.br = SetTimeout(@, "pushState")]

\* schedulePushToHistory(delayMs): the previous pending push is cancelled and
\* a new one is set.
SchedulePushToHistory(web) ==
    IF web.hm.isRestoringFromHistory THEN web
    ELSE [web EXCEPT !.hm.pendingPush = web.br.nextTimer,
                     !.br = SetTimeout(ClearTimeout(@, web.hm.pendingPush), "pushState")]

\* urlStateManager.scheduleURLUpdate(delayMs): the previous pending update is
\* cancelled and a new one is set.
ScheduleURLUpdate(web) ==
    IF web.hm.isRestoringFromHistory THEN web
    ELSE [web EXCEPT !.ut = web.br.nextTimer,
                     !.br = SetTimeout(ClearTimeout(@, web.ut), "encodeStateToURL")]

\* updateURLWithoutHistory(delayMs)
UpdateURLWithoutHistory(web) ==
    IF web.hm.isRestoringFromHistory THEN web ELSE ScheduleURLUpdate(web)

\* The history objects become those of `web`.
Becomes(web) ==
    /\ historyManager' = web.hm
    /\ updateTimeout' = web.ut
    /\ browser' = web.br

\* The page as the browser loads it: one session-history entry without a
\* state, no timer set, and a HistoryManager as its constructor leaves it.
LoadedWeb ==
    [hm |-> [isRestoringFromHistory |-> FALSE, pendingPush |-> NoTimer,
             lastPushedState |-> Null, stateHistory |-> <<>>, historyIndex |-> -1],
     ut |-> NoTimer,
     br |-> [entries |-> <<[state |-> Null, madeAs |-> -1]>>, index |-> 1,
             timers |-> {}, nextTimer |-> 1]]

---------------------------------------------------------------------------
\* Inputs

\* p.deltaTime of a frame, in milliseconds.
DeltaTimes == {100, 150}

\* World positions a drag may drop a guide point or a joint at.
DragTargets == {Pos(400, 380), Pos(400, 300), Pos(460, 270)}

\* World positions a drag may drop the anchor at.
AnchorTargets == {Pos(380, 340)}

\* Values updateFadeLifespan may be called with.
FadeLifespans == {1, 2}

\* Screen positions (pixels) of a wheel event or a double tap.
ScreenPoints == {Pos(400, 300), Pos(200, 100)}

\* Zoom factors of a wheel event or a pinch, in hundredths.
ZoomFactors == {50, 130, 900}

\* Pan deltas, in pixels.
PanDeltas == {Pos(30, -20)}

\* State objects handed to importState: a crank-only chain, and a two-rod
\* chain, with a camera zoom inside, below and above the camera's range.
ImportCameras ==
    {[offsetX |-> 0, offsetY |-> 0, zoom |-> z] : z \in {100, 5, 800}}

\* Versions of a state object that importState does not know: another
\* version, and "undefined" for a state object without a version.
OtherVersions == {"2.0", "undefined"}

\* A well-formed state of each such version: a crank of length 50 at (100, 100).
OtherVersionStates ==
    {[StateObject(Pos(100, 100), 50, TRUE, <<>>,
                  [offsetX |-> 10 * Centi, offsetY |-> 0, zoom |-> 2 * Centi], FALSE)
         EXCEPT !.version = v] : v \in OtherVersions}

\* The state object decodeStateFromURL builds from a hash that names the
\* anchor and the camera and nothing else, "#anchor=100,100&camera=0,0,1": it
\* has the version, and no anchor.crank.
MalformedStates ==
    {[version |-> "1.0", anchor |-> [x |-> 100, y |-> 100], rods |-> <<>>,
      camera |-> [offsetX |-> 0, offsetY |-> 0, zoom |-> Centi]]}

ImportStates ==
    {StateObject(Pos(400, 350), 80, TRUE, <<>>, cam, TRUE) : cam \in ImportCameras}
    \cup {StateObject(Pos(400, 350), 80, FALSE,
                      <<[id |-> 1, length |-> 120, isTracing |-> TRUE,
                         isFullRodTracing |-> FALSE, guidePoint |-> Pos(400, 380)]>>,
                      cam, FALSE) : cam \in ImportCameras}
    \cup OtherVersionStates

\* Values of traceSystem.jointSizeMultiplier: <<>> when the field was never
\* assigned, as in the TraceSystem constructor, else <<m>>.
JointSizeMultipliers == {<<>>, <<2>>}

---------------------------------------------------------------------------
\* The initial state: a LinkageMechanism on an 800 x 600 canvas, a TraceSystem
\* and a Camera as their constructors leave them.

EmptyPaths == [k \in {} |-> <<>>]

\* What the constructors leave, whatever the chain.
InitApp ==
    /\ anchor = [pos |-> Pos(400, 350)]
    /\ joints = <<>>
    /\ crankAngle = 0
    /\ crankSpeed = 1
    /\ isPlaying = TRUE
    /\ isStretchingMode = TRUE
    /\ tracePaths = EmptyPaths
    /\ fullRodTracePaths = EmptyPaths
    /\ fadeLifespan = FRAMES_PER_ROUND
    /\ traceWidth = 8
    /\ rodsWidth = 4
    /\ jointSizeMultiplier \in JointSizeMultipliers
    /\ offset = Pos(0, 0)
    /\ zoom = Centi
    /\ isAnimating = FALSE
    /\ animStartZoom = Centi
    /\ animTargetZoom = Centi
    /\ animProgress = 0
    /\ animWorldPos = Null
    /\ animTargetOffset = Null
    /\ animStartOffset = Null
    /\ selectedObject = Null
    /\ dragOffset = Null
    /\ isPanning = FALSE
    /\ pressPos = Null
    /\ pc = "update"
    /\ frame = 0
    /\ tick = 0
    /\ lastOp = "init"
    /\ thrown = FALSE
    /\ events = 0
    /\ structural = 0
    /\ emitted = EmptyPaths
    /\ fadeSince = 1
    /\ animRequest = "none"
    /\ restored = Null

\* The LinkageApp constructor's replaceHistoryNow(): the first history entry
\* gets the state the application starts with.
InitHistory ==
    /\ clock = 0
    /\ \E web \in {ReplaceHistoryNow(LoadedWeb, ExportStateAt(0))} :
           /\ historyManager = web.hm
           /\ updateTimeout = web.ut
           /\ browser = web.br

\* setupDefaultConfiguration(): three rods, the last one tracing, two guide points.
Init ==
    /\ rods = <<Rod(0, 80), Rod(1, 120), [Rod(2, 60) EXCEPT !.isTracing = TRUE]>>
    /\ guidePoints = <<GuidePoint(1, 400, 380), GuidePoint(2, 400, 200)>>
    /\ InitApp
    /\ InitHistory

\* A mechanism of the crank alone, tracing: what two removeRod() calls leave of
\* the default configuration.
InitCrank ==
    /\ rods = <<[Rod(0, 80) EXCEPT !.isTracing = TRUE]>>
    /\ guidePoints = <<>>
    /\ InitApp
    /\ InitHistory

---------------------------------------------------------------------------
\* p.draw, one frame in four steps.  Handlers run between frames only
\* (pc = "update"): the program is single-threaded.

\* camera.update(p.deltaTime / 1000); mechanism.update().  When updateJoints
\* throws, the frame ends there: nothing is sampled, aged or drawn.
FrameUpdate(deltaTime) ==
    /\ pc = "update"
    /\ frame' = frame + 1
    /\ CameraUpdate(deltaTime)
    /\ crankAngle' = Advanced(crankAngle, crankSpeed, isPlaying)
    /\ \E solved \in {UpdateJoints(anchor.pos, rods, guidePoints, crankAngle', isStretchingMode)} :
           /\ rods' = solved.rods
           /\ joints' = solved.joints
           /\ thrown' = solved.threw
           /\ pc' = IF solved.threw THEN "update" ELSE "sample"
           /\ tick' = IF solved.threw THEN tick ELSE tick + 1
    /\ lastOp' = "update"
    /\ UNCHANGED inputVars
    /\ UNCHANGED histVars
    /\ UNCHANGED <<anchor, guidePoints, crankSpeed, isPlaying, isStretchingMode, traceVars,
                   fadeLifespan, styleVars, events, structural, emitted, fadeSince, animRequest>>

\* The sampling loop: only while the mechanism is playing.
FrameSample ==
    /\ pc = "sample"
    /\ pc' = "age"
    /\ IF isPlaying
       THEN /\ tracePaths' = SamplePoints(tracePaths, 1)
            /\ fullRodTracePaths' = SampleFullRods(fullRodTracePaths, 1)
            /\ emitted' = RecordEmitted(emitted, 1)
       ELSE UNCHANGED <<traceVars, emitted>>
    /\ lastOp' = "sample"
    /\ UNCHANGED inputVars
    /\ UNCHANGED histVars
    /\ UNCHANGED <<mechVars, fadeLifespan, styleVars, camVars, frame, tick, thrown, events,
                   structural, fadeSince, animRequest>>

\* traceSystem.update()
TraceUpdate ==
    /\ tracePaths' = [k \in DOMAIN tracePaths |-> AgePath(tracePaths[k], fadeLifespan)]
    /\ fullRodTracePaths' =
           [k \in DOMAIN fullRodTracePaths |-> AgeFullRodPath(fullRodTracePaths[k], fadeLifespan)]

FrameAge ==
    /\ pc = "age"
    /\ pc' = "render"
    /\ TraceUpdate
    /\ lastOp' = "age"
    /\ UNCHANGED inputVars
    /\ UNCHANGED histVars
    /\ UNCHANGED <<mechVars, fadeLifespan, styleVars, camVars, frame, tick, thrown, events,
                   structural, emitted, fadeSince, animRequest>>

\* renderer.draw(p): draws what the state holds, and changes none of it.
FrameRender ==
    /\ pc = "render"
    /\ pc' = "update"
    /\ lastOp' = "render"
    /\ UNCHANGED inputVars
    /\ UNCHANGED histVars
    /\ UNCHANGED <<mechVars, traceVars, fadeLifespan, styleVars, camVars, frame, tick, thrown,
                   events, structural, emitted, fadeSince, animRequest>>

---------------------------------------------------------------------------
\* Handlers

\* What a pointer handler does to the model's bookkeeping.
PointerHandler(name) ==
    /\ pc = "update"
    /\ events < MaxEvents
    /\ events' = events + 1
    /\ structural' = structural
    /\ lastOp' = name
    /\ UNCHANGED <<pc, frame, tick>>

\* The same, for a handler that leaves the pointer's state alone.
Handler(name) ==
    /\ PointerHandler(name)
    /\ UNCHANGED inputVars
    /\ UNCHANGED histVars

\* The same, for the Add Rod and Remove Rod buttons.
StructuralHandler(name) ==
    /\ pc = "update"
    /\ structural < MaxStructural
    /\ structural' = structural + 1
    /\ events' = events
    /\ lastOp' = name
    /\ UNCHANGED inputVars
    /\ UNCHANGED histVars
    /\ UNCHANGED <<pc, frame, tick>>

\* addRodBtn.onclick: addRod(), then updateFadeLifespan(FRAMES_PER_ROUND), which
\* a throwing addRod() skips.
AddRodBtn ==
    /\ StructuralHandler("addRod")
    /\ Len(rods) < MaxRods
    /\ \E isLarger \in BOOLEAN, largerSegmentFirst \in BOOLEAN, positive \in BOOLEAN :
           AddRod(isLarger, largerSegmentFirst, positive)
    /\ IF thrown'
       THEN UNCHANGED <<fadeLifespan, fadeSince>>
       ELSE UpdateFadeLifespan(FRAMES_PER_ROUND)
    /\ UNCHANGED <<anchor, joints, crankAngle, crankSpeed, isPlaying, isStretchingMode,
                   traceVars, styleVars, camVars, emitted, animRequest>>

\* removeRodBtn.onclick: clearTrace(rods.length - 1), removeRod(),
\* updateFadeLifespan(FRAMES_PER_ROUND).
RemoveRodBtn ==
    /\ StructuralHandler("removeRod")
    /\ ClearTrace(Key(Len(rods) - 1))
    /\ RemoveRod
    /\ UpdateFadeLifespan(FRAMES_PER_ROUND)
    /\ thrown' = FALSE
    /\ UNCHANGED <<anchor, joints, crankAngle, crankSpeed, isPlaying, isStretchingMode,
                   styleVars, camVars, animRequest>>

\* togglePlayPause(): the Play/Pause button, or a click on the empty canvas.
TogglePlayPause ==
    /\ Handler("togglePlayPause")
    /\ isPlaying' = ~isPlaying
    /\ thrown' = FALSE
    /\ UNCHANGED <<anchor, rods, guidePoints, joints, crankAngle, crankSpeed,
                   isStretchingMode, traceVars, fadeLifespan, styleVars, camVars, emitted,
                   fadeSince, animRequest>>

\* toggleStretchingMode()
ToggleStretchingMode ==
    /\ Handler("toggleStretchingMode")
    /\ isStretchingMode' = ~isStretchingMode
    /\ thrown' = FALSE
    /\ UNCHANGED <<anchor, rods, guidePoints, joints, crankAngle, crankSpeed, isPlaying,
                   traceVars, fadeLifespan, styleVars, camVars, emitted, fadeSince,
                   animRequest>>

\* handleDrag with a guide point selected: the guide point follows the pointer.
DragGuidePoint(i, worldMouse) ==
    /\ Handler("dragGuidePoint")
    /\ i \in 1..Len(guidePoints)
    /\ guidePoints' = [guidePoints EXCEPT ![i].pos = worldMouse]
    /\ thrown' = FALSE
    /\ UNCHANGED <<anchor, rods, joints, crankAngle, crankSpeed, isPlaying,
                   isStretchingMode, traceVars, fadeLifespan, styleVars, camVars, emitted,
                   fadeSince, animRequest>>

\* handleDrag with the anchor selected: the anchor follows the pointer.
DragAnchor(worldMouse) ==
    /\ Handler("dragAnchor")
    /\ anchor' = [anchor EXCEPT !.pos = worldMouse]
    /\ thrown' = FALSE
    /\ UNCHANGED <<rods, guidePoints, joints, crankAngle, crankSpeed, isPlaying,
                   isStretchingMode, traceVars, fadeLifespan, styleVars, camVars, emitted,
                   fadeSince, animRequest>>

\* handleRelease after a click on the anchor: reverseSpinDirection().
ClickAnchor ==
    /\ Handler("reverseSpinDirection")
    /\ crankSpeed' = -crankSpeed
    /\ thrown' = FALSE
    /\ UNCHANGED <<anchor, rods, guidePoints, joints, crankAngle, isPlaying,
                   isStretchingMode, traceVars, fadeLifespan, styleVars, camVars, emitted,
                   fadeSince, animRequest>>

\* handleDrag with the joint of rod i (1-based) selected: the rod's length
\* becomes the distance from the rod's start to the pointer.
DragJoint(i, worldMouse) ==
    /\ Handler("dragJoint")
    /\ i \in 1..Len(rods)
    /\ i <= Len(joints)
    /\ rods' = [rods EXCEPT ![i].length = Dist(StartPos(i), worldMouse)]
    /\ thrown' = FALSE
    /\ UNCHANGED <<anchor, guidePoints, joints, crankAngle, crankSpeed, isPlaying,
                   isStretchingMode, traceVars, fadeLifespan, styleVars, camVars, emitted,
                   fadeSince, animRequest>>

\* handleRelease after a click on the joint of rod i: point tracing toggles.
ClickJoint(i) ==
    /\ Handler("clickJoint")
    /\ i \in 1..Min(Len(rods), Len(joints))
    /\ rods' = [rods EXCEPT ![i].isTracing = ~@]
    /\ thrown' = FALSE
    /\ UNCHANGED <<anchor, guidePoints, joints, crankAngle, crankSpeed, isPlaying,
                   isStretchingMode, traceVars, fadeLifespan, styleVars, camVars, emitted,
                   fadeSince, animRequest>>

\* handleRelease after a click on guide point i: full-rod tracing of the rod
\* it guides toggles.
ClickGuidePoint(i) ==
    /\ Handler("clickGuidePoint")
    /\ i \in 1..Len(guidePoints)
    /\ i + 1 <= Len(rods)
    /\ rods' = [rods EXCEPT ![i + 1].isFullRodTracing = ~@]
    /\ thrown' = FALSE
    /\ UNCHANGED <<anchor, guidePoints, joints, crankAngle, crankSpeed, isPlaying,
                   isStretchingMode, traceVars, fadeLifespan, styleVars, camVars, emitted,
                   fadeSince, animRequest>>

\* traceSystem.updateFadeLifespan(frames), called through the public interface.
SetFadeLifespan(frames) ==
    /\ Handler("updateFadeLifespan")
    /\ frames # fadeLifespan
    /\ UpdateFadeLifespan(frames)
    /\ thrown' = FALSE
    /\ UNCHANGED <<mechVars, traceVars, styleVars, camVars, emitted, animRequest>>

\* handlePinchZoom: zoomAt the world point under the pinch's midpoint.
PinchZoom(midPoint, zoomFactor) ==
    /\ Handler("zoomAt")
    /\ ZoomAt(ScreenToWorld(midPoint.x, midPoint.y), zoomFactor)
    /\ thrown' = FALSE
    /\ UNCHANGED <<mechVars, traceVars, fadeLifespan, styleVars, emitted, fadeSince,
                   animRequest>>

\* p.touchStarted on a double tap: animatedZoomAt the tapped world point by 1.3.
DoubleTap(tapPos) ==
    /\ Handler("animatedZoomAt")
    /\ AnimatedZoomAt(ScreenToWorld(tapPos.x, tapPos.y), 130)
    /\ animRequest' = "zoom"
    /\ thrown' = FALSE
    /\ UNCHANGED <<mechVars, traceVars, fadeLifespan, styleVars, emitted, fadeSince>>

\* fitViewBtn.onclick: an animated fitToView of the merged bounds.
FitViewBtn ==
    /\ Handler("fitToView")
    /\ FitToView(FitViewBounds, CanvasWidth, CanvasHeight, TRUE)
    /\ animRequest' = "fit"
    /\ thrown' = FALSE
    /\ UNCHANGED <<mechVars, traceVars, fadeLifespan, styleVars, emitted, fadeSince>>

\* camera.fitToView(bounds, width, height, false): the instant fit.
FitToViewInstant ==
    /\ Handler("fitToViewInstant")
    /\ FitToView(FitViewBounds, CanvasWidth, CanvasHeight, FALSE)
    /\ thrown' = FALSE
    /\ UNCHANGED <<mechVars, traceVars, fadeLifespan, styleVars, emitted, fadeSince,
                   animRequest>>

\* Bounds handed to camera.fitToView by a caller other than the Fit View
\* button: the box [-50, 50] x [-50, 50].
FitBoxes == {BoundsOf({Pos(-50, -50), Pos(50, 50)}, 0)}

\* camera.fitToView(bounds, width, height, false) of given bounds.
FitToBoundsInstant(bounds) ==
    /\ Handler("fitToBounds")
    /\ FitToView(bounds, CanvasWidth, CanvasHeight, FALSE)
    /\ thrown' = FALSE
    /\ UNCHANGED <<mechVars, traceVars, fadeLifespan, styleVars, emitted, fadeSince,
                   animRequest>>

\* handleDrag while panning: camera.pan by the pointer's movement.
PanDrag(delta) ==
    /\ Handler("pan")
    /\ CameraPan(delta.x, delta.y)
    /\ thrown' = FALSE
    /\ UNCHANGED <<mechVars, traceVars, fadeLifespan, styleVars, emitted, fadeSince,
                   animRequest>>

\* stateSerializer.importState(state), as the URL decoder and the popstate
\* listener call it.
ImportStateCall(state) ==
    /\ Handler(IF state \in OtherVersionStates THEN "importOtherVersion"
               ELSE IF state \in MalformedStates THEN "importMalformed"
               ELSE "importState")
    /\ ImportState(state)
    /\ UNCHANGED <<traceVars, fadeLifespan, styleVars, emitted, fadeSince, animRequest>>

\* The history manager's round trip: the state exportState() returns is handed
\* back to importState().
RoundTrip ==
    /\ Handler("roundTrip")
    /\ ImportState(ExportState)
    /\ UNCHANGED <<traceVars, fadeLifespan, styleVars, emitted, fadeSince, animRequest>>

---------------------------------------------------------------------------
\* InputHandler: press, drag, release

\* Screen positions (pixels) of a press, a drag or a release: on the anchor,
\* between the anchor and the first guide point, by the crank's end, and on
\* the empty canvas.
PressPoints == {Pos(400, 350), Pos(400, 368), Pos(478, 352), Pos(600, 100)}

\* window.devicePixelRatio
devicePixelRatio == 1

\* Vector.dist(a, b) squared.  The hit tests and the sort compare distances,
\* which order as their squares do; the squares are exact on integers.
DistSq(a, b) == (a.x - b.x) * (a.x - b.x) + (a.y - b.y) * (a.y - b.y)

\* Vector.dist(pos, worldMouse) < screenRadius / camera.zoom
InPickCircle(pos, worldMouse, screenRadius) ==
    LET reach == (screenRadius * Centi) \div zoom + 1
    IN  /\ Abs(pos.x - worldMouse.x) <= reach
        /\ Abs(pos.y - worldMouse.y) <= reach
        /\ DistSq(pos, worldMouse) * zoom * zoom
               < (screenRadius * Centi) * (screenRadius * Centi)

\* The hit radii in screen pixels
ScreenJointRadius(isTouchDevice) == IF isTouchDevice THEN 40 ELSE 20
ScreenObjectRadius(isTouchDevice) == IF isTouchDevice THEN 35 ELSE 15

\* One entry of handlePress's candidates.  rodIndex counts rods from 1, and
\* is 0 for the anchor, which has none.
Candidate(type, rodIndex, pos, worldMouse, offsetKept) ==
    [type |-> type, rodIndex |-> rodIndex, distance |-> DistSq(pos, worldMouse),
     dragOffset |-> IF offsetKept THEN Pos(pos.x - worldMouse.x, pos.y - worldMouse.y)
                    ELSE Null]

RECURSIVE GuidePointCandidates(_, _, _)
GuidePointCandidates(i, worldMouse, objectRadius) ==
    IF i > Len(guidePoints) THEN <<>>
    ELSE (IF InPickCircle(guidePoints[i].pos, worldMouse, objectRadius)
          THEN <<Candidate("guidePoint", i + 1, guidePoints[i].pos, worldMouse, TRUE)>>
          ELSE <<>>)
         \o GuidePointCandidates(i + 1, worldMouse, objectRadius)

RECURSIVE JointCandidates(_, _, _)
JointCandidates(i, worldMouse, jointRadius) ==
    IF i > Len(joints) THEN <<>>
    ELSE (IF InPickCircle(joints[i], worldMouse, jointRadius)
          THEN <<Candidate("joint", i, joints[i], worldMouse, FALSE)>>
          ELSE <<>>)
         \o JointCandidates(i + 1, worldMouse, jointRadius)

\* The candidates handlePress collects, in the order it finds them: the
\* anchor, the guide points, the joints.
Candidates(worldMouse, isTouchDevice) ==
    (IF InPickCircle(anchor.pos, worldMouse, ScreenObjectRadius(isTouchDevice))
     THEN <<Candidate("anchor", 0, anchor.pos, worldMouse, TRUE)>>
     ELSE <<>>)
    \o GuidePointCandidates(1, worldMouse, ScreenObjectRadius(isTouchDevice))
    \o JointCandidates(1, worldMouse, ScreenJointRadius(isTouchDevice))

\* The sort left out: the candidates stay in the order they were found.
SortByDistanceKept(candidates) == candidates

\* candidates.sort((a, b) => a.distance - b.distance): ascending, and stable.
RECURSIVE SortByDistance(_)
SortByDistance(candidates) ==
    IF Len(candidates) <= 1 THEN candidates
    ELSE LET sorted == SortByDistance(Front(candidates))
             c == Last(candidates)
             k == Cardinality({i \in 1..Len(sorted) : sorted[i].distance <= c.distance})
         IN  SubSeq(sorted, 1, k) \o <<c>> \o SubSeq(sorted, k + 1, Len(sorted))

\* handlePress(x, y, isTouchDevice).  With a candidate, the closest is
\* selected and its drag offset, if it has one, is kept.  Without one, the rod
\* loop finds nothing either (a rod is hit when its joint is, and that joint
\* would have been a candidate), and a mouse press starts panning.
HandlePress(x, y, isTouchDevice) ==
    /\ PointerHandler(IF isTouchDevice THEN "handleTouchPress" ELSE "handlePress")
    /\ UNCHANGED histVars
    /\ pressPos' = Pos(x, y)
    /\ \E candidates \in {Candidates(ScreenToWorld(x, y), isTouchDevice)} :
           IF candidates # <<>>
           THEN \E closest \in {SortByDistance(candidates)[1]} :
                    /\ selectedObject' = [type |-> closest.type, rodIndex |-> closest.rodIndex]
                    /\ dragOffset' = IF closest.dragOffset # Null THEN closest.dragOffset
                                     ELSE dragOffset
                    /\ UNCHANGED isPanning
           ELSE /\ selectedObject' = Null
                /\ isPanning' = IF isTouchDevice THEN isPanning ELSE TRUE
                /\ UNCHANGED dragOffset
    /\ thrown' = FALSE
    /\ UNCHANGED <<mechVars, traceVars, fadeLifespan, styleVars, camVars, emitted,
                   fadeSince, animRequest>>

\* handleDrag(x, y, px, py): the camera pans, or the selected anchor or guide
\* point follows the pointer, or the rod of the selected joint gets the length
\* from its start to the pointer.
HandleDrag(x, y, px, py) ==
    /\ Handler("handleDrag")
    /\ thrown' = FALSE
    /\ \E worldMouse \in {ScreenToWorld(x, y)} :
           IF isPanning
           THEN /\ CameraPan(x - px, y - py)
                /\ UNCHANGED mechVars
           ELSE /\ UNCHANGED camVars
                /\ IF selectedObject = Null
                   THEN UNCHANGED mechVars
                   ELSE CASE selectedObject.type = "anchor" /\ dragOffset # Null ->
                                 /\ anchor' = [anchor EXCEPT !.pos =
                                        Pos(worldMouse.x + dragOffset.x,
                                            worldMouse.y + dragOffset.y)]
                                 /\ UNCHANGED <<rods, guidePoints, joints, crankAngle,
                                                crankSpeed, isPlaying, isStretchingMode>>
                          [] selectedObject.type = "guidePoint" /\ dragOffset # Null ->
                                 /\ guidePoints' =
                                        [guidePoints EXCEPT ![selectedObject.rodIndex - 1].pos =
                                             Pos(worldMouse.x + dragOffset.x,
                                                 worldMouse.y + dragOffset.y)]
                                 /\ UNCHANGED <<anchor, rods, joints, crankAngle, crankSpeed,
                                                isPlaying, isStretchingMode>>
                          [] selectedObject.type = "joint"
                                 /\ selectedObject.rodIndex <= Len(rods) ->
                                 /\ rods' = [rods EXCEPT ![selectedObject.rodIndex].length =
                                                 Dist(StartPos(selectedObject.rodIndex),
                                                      worldMouse)]
                                 /\ UNCHANGED <<anchor, guidePoints, joints, crankAngle,
                                                crankSpeed, isPlaying, isStretchingMode>>
                          [] OTHER -> UNCHANGED mechVars
    /\ UNCHANGED <<traceVars, fadeLifespan, styleVars, emitted, fadeSince, animRequest>>

\* Whether the selection is of the given type.
Selected(type) == selectedObject # Null /\ selectedObject.type = type

\* handleRelease(x, y): a release within 5 pixels of the press is a click, which
\* reverses the spin (anchor), toggles point tracing (joint) or full-rod
\* tracing (guide point), or toggles play (nothing selected); the selection,
\* the drag offset and the panning flag are cleared.
HandleRelease(x, y) ==
    /\ PointerHandler("handleRelease")
    /\ UNCHANGED histVars
    /\ selectedObject' = Null
    /\ dragOffset' = Null
    /\ isPanning' = FALSE
    /\ UNCHANGED pressPos
    /\ thrown' = FALSE
    /\ \E wasClick \in {pressPos # Null /\ DistSq(Pos(x, y), pressPos)
                            < (5 * devicePixelRatio) * (5 * devicePixelRatio)} :
           /\ crankSpeed' = IF wasClick /\ Selected("anchor") THEN -crankSpeed ELSE crankSpeed
           /\ rods' = IF wasClick /\ Selected("joint") /\ selectedObject.rodIndex <= Len(rods)
                      THEN [rods EXCEPT ![selectedObject.rodIndex].isTracing = ~@]
                      ELSE IF wasClick /\ Selected("guidePoint")
                              /\ selectedObject.rodIndex <= Len(rods)
                      THEN [rods EXCEPT ![selectedObject.rodIndex].isFullRodTracing = ~@]
                      ELSE rods
           /\ isPlaying' = IF wasClick /\ selectedObject = Null THEN ~isPlaying ELSE isPlaying
    /\ UNCHANGED <<anchor, guidePoints, joints, crankAngle, isStretchingMode, traceVars,
                   fadeLifespan, styleVars, camVars, emitted, fadeSince, animRequest>>

---------------------------------------------------------------------------
\* The handlers with their calls to the history manager, the timers' callbacks
\* and the popstate listener

\* Screen position (pixels) of the pointer at a wheel event.
WheelPoints == {Pos(200, 100)}

\* World position a guide point is dragged to.
GuideTargets == {Pos(400, 300)}

\* event.delta of a wheel event.
WheelDeltas == {-300, 500}

\* The state object exportState() returns once the handler's changes are
\* made, at the handler's time: the clock has moved on since the last task.
ExportedNow == ExportStateAt(clock)'

\* handleRelease after a click on the joint of rod i: point tracing toggles,
\* then pushToHistoryNow(); the selection made by the press is cleared.
JointClicked(i) ==
    /\ PointerHandler("clickJoint")
    /\ i \in 1..Min(Len(rods), Len(joints))
    /\ rods' = [rods EXCEPT ![i].isTracing = ~@]
    /\ thrown' = FALSE
    /\ pressPos' = WorldToScreen(joints[i])
    /\ selectedObject' = Null
    /\ dragOffset' = Null
    /\ isPanning' = FALSE
    /\ UNCHANGED <<anchor, guidePoints, joints, crankAngle, crankSpeed, isPlaying,
                   isStretchingMode, traceVars, fadeLifespan, styleVars, camVars, emitted,
                   fadeSince, animRequest, restored>>
    /\ clock' = clock + 1
    /\ Becomes(PushToHistoryNow(Web, ExportedNow))

\* handleRelease after a click on the anchor: reverseSpinDirection(), then
\* pushToHistoryNow().
AnchorClicked ==
    /\ PointerHandler("reverseSpinDirection")
    /\ crankSpeed' = -crankSpeed
    /\ thrown' = FALSE
    /\ pressPos' = WorldToScreen(anchor.pos)
    /\ selectedObject' = Null
    /\ dragOffset' = Null
    /\ isPanning' = FALSE
    /\ UNCHANGED <<anchor, rods, guidePoints, joints, crankAngle, isPlaying,
                   isStretchingMode, traceVars, fadeLifespan, styleVars, camVars, emitted,
                   fadeSince, animRequest, restored>>
    /\ clock' = clock + 1
    /\ Becomes(PushToHistoryNow(Web, ExportedNow))

\* handleZoom(x, y, delta): zoomAt the world point under the pointer by
\* 1 - delta * 0.001, then updateURLWithoutHistory(50) and
\* schedulePushToHistory(500).
HandleZoom(x, y, delta) ==
    /\ PointerHandler("handleZoom")
    /\ ZoomAt(ScreenToWorld(x, y), Centi - delta \div 10)
    /\ thrown' = FALSE
    /\ Becomes(SchedulePushToHistory(UpdateURLWithoutHistory(Web)))
    /\ UNCHANGED inputVars
    /\ UNCHANGED <<mechVars, traceVars, fadeLifespan, styleVars, emitted, fadeSince,
                   animRequest, clock, restored>>

\* A press on guide point i followed by handleDrag: the guide point follows
\* the pointer, then updateURLWithoutHistory(50).
GuidePointDragged(i, worldMouse) ==
    /\ PointerHandler("dragGuidePoint")
    /\ i \in 1..Len(guidePoints)
    /\ selectedObject \in {Null, [type |-> "guidePoint", rodIndex |-> i + 1]}
    /\ selectedObject' = [type |-> "guidePoint", rodIndex |-> i + 1]
    /\ pressPos' = IF selectedObject = Null THEN WorldToScreen(guidePoints[i].pos) ELSE pressPos
    /\ dragOffset' = Pos(0, 0)
    /\ isPanning' = FALSE
    /\ guidePoints' = [guidePoints EXCEPT ![i].pos = worldMouse]
    /\ thrown' = FALSE
    /\ Becomes(UpdateURLWithoutHistory(Web))
    /\ UNCHANGED <<anchor, rods, joints, crankAngle, crankSpeed, isPlaying,
                   isStretchingMode, traceVars, fadeLifespan, styleVars, camVars, emitted,
                   fadeSince, animRequest, clock, restored>>

\* handleRelease away from the press: without a press position it only clears
\* the selection; after a drag of an object or a pan it calls
\* schedulePushToHistory(300).
DragReleased ==
    /\ PointerHandler("dragReleased")
    /\ selectedObject' = Null
    /\ dragOffset' = Null
    /\ isPanning' = FALSE
    /\ UNCHANGED pressPos
    /\ thrown' = FALSE
    /\ Becomes(IF pressPos # Null /\ (isPanning \/ selectedObject # Null)
               THEN SchedulePushToHistory(Web)
               ELSE Web)
    /\ UNCHANGED <<mechVars, traceVars, fadeLifespan, styleVars, camVars, emitted,
                   fadeSince, animRequest, clock, restored>>

\* The model's bookkeeping of a task the browser starts by itself or on the
\* Back and Forward buttons: it runs between frames and handlers.
BrowserTask(name) ==
    /\ pc = "update"
    /\ lastOp' = name
    /\ UNCHANGED <<pc, frame, tick, events, structural>>

\* The callback of schedulePushToHistory's timer: _pushState(), then
\* pendingPush = null.
PushTimerFires(timer) ==
    /\ BrowserTask("pushTimer")
    /\ Due(browser, timer)
    /\ timer.callback = "pushState"
    /\ clock' = clock + 1
    /\ thrown' = FALSE
    /\ UNCHANGED inputVars
    /\ UNCHANGED <<mechVars, traceVars, fadeLifespan, styleVars, camVars, emitted,
                   fadeSince, animRequest, restored>>
    /\ \E web \in {PushState([Web EXCEPT !.br.timers = @ \ {timer}], ExportedNow)} :
           Becomes([web EXCEPT !.hm.pendingPush = NoTimer])

\* The callback of scheduleURLUpdate's timer: encodeStateToURL(), which ends
\* with window.history.replaceState(null, '', hash).
EncodeTimerFires(timer) ==
    /\ BrowserTask("encodeStateToURL")
    /\ Due(browser, timer)
    /\ timer.callback = "encodeStateToURL"
    /\ thrown' = FALSE
    /\ browser' = HistoryReplaceState([browser EXCEPT !.timers = @ \ {timer}], Null)
    /\ UNCHANGED inputVars
    /\ UNCHANGED <<mechVars, traceVars, fadeLifespan, styleVars, camVars, emitted,
                   fadeSince, animRequest, historyManager, updateTimeout, clock, restored>>

\* inputHandler.clearState()
ClearState ==
    /\ selectedObject' = Null
    /\ dragOffset' = Null
    /\ isPanning' = FALSE
    /\ pressPos' = Null

\* The Back or Forward button takes the browser to entry j of the session
\* history, and the popstate listener runs with that entry's state.  Without
\* an index in it the listener gives up.  With one, the state stored at that
\* index is imported, historyIndex becomes the index and the entry's state is
\* written again; then the restore callback clears the input handler's state.
\* An import that throws is caught and ends the listener.  In every case the
\* finally block sets isRestoringFromHistory to false.
PopState(j) ==
    /\ BrowserTask("popstate")
    /\ j \in 1..Len(browser.entries)
    /\ j # browser.index
    /\ ~historyManager.isRestoringFromHistory
    /\ \E event \in {browser.entries[j]} :
           IF event.state = Null
           THEN /\ restored' = Null
                /\ thrown' = FALSE
                /\ browser' = [browser EXCEPT !.index = j]
                /\ historyManager' = [historyManager EXCEPT !.isRestoringFromHistory = FALSE]
                /\ UNCHANGED <<mechVars, camVars, inputVars>>
           ELSE IF event.state.ourIndex + 1 \in 1..Len(historyManager.stateHistory)
           THEN \E targetState \in {historyManager.stateHistory[event.state.ourIndex + 1]} :
                    /\ restored' = targetState
                    /\ ImportState(targetState)
                    /\ IF thrown'
                       THEN /\ browser' = [browser EXCEPT !.index = j]
                            /\ historyManager' =
                                   [historyManager EXCEPT !.isRestoringFromHistory = FALSE]
                            /\ UNCHANGED inputVars
                       ELSE /\ browser' = HistoryReplaceState([browser EXCEPT !.index = j],
                                                              [ourIndex |-> event.state.ourIndex])
                            /\ historyManager' =
                                   [historyManager EXCEPT
                                       !.historyIndex = event.state.ourIndex,
                                       !.isRestoringFromHistory = FALSE]
                            /\ ClearState
           ELSE /\ restored' = Null
                /\ thrown' = FALSE
                /\ browser' = [browser EXCEPT !.index = j]
                /\ historyManager' = [historyManager EXCEPT !.isRestoringFromHistory = FALSE]
                /\ ClearState
                /\ UNCHANGED <<mechVars, camVars>>
    /\ UNCHANGED <<traceVars, fadeLifespan, styleVars, emitted, fadeSince, animRequest,
                   updateTimeout, clock>>

---------------------------------------------------------------------------
\* Specifications

Frame ==
    \/ frame < MaxFrames /\ \E deltaTime \in DeltaTimes : FrameUpdate(deltaTime)
    \/ FrameSample
    \/ FrameAge
    \/ FrameRender

\* The chain under the Add Rod and Remove Rod buttons, while frames run.
Next ==
    \/ Frame
    \/ AddRodBtn
    \/ RemoveRodBtn

Spec == Init /\ [][Next]_vars

\* The traces: play and pause, the tracing toggles, the fade lifespan and the
\* Remove Rod button's clearTrace, while frames run.
NextTrace ==
    \/ Frame
    \/ TogglePlayPause
    \/ \E i \in 1..3 : ClickJoint(i)
    \/ \E i \in 1..2 : ClickGuidePoint(i)
    \/ \E frames \in FadeLifespans : SetFadeLifespan(frames)
    \/ RemoveRodBtn

SpecTrace == Init /\ [][NextTrace]_vars

\* The solver under guide-point drags, length edits and the stretching and
\* play toggles, while frames run.
NextStretch ==
    \/ Frame
    \/ TogglePlayPause
    \/ ToggleStretchingMode
    \/ \E i \in 1..2, worldMouse \in DragTargets : DragGuidePoint(i, worldMouse)
    \/ \E i \in 1..3, worldMouse \in DragTargets : DragJoint(i, worldMouse)
    \/ \E worldMouse \in AnchorTargets : DragAnchor(worldMouse)
    \/ ClickAnchor

SpecStretch == Init /\ [][NextStretch]_vars

\* The camera under zooms, pans, fits and imports, while frames run.
NextCamera ==
    \/ Frame
    \/ \E midPoint \in ScreenPoints, zoomFactor \in ZoomFactors : PinchZoom(midPoint, zoomFactor)
    \/ \E tapPos \in ScreenPoints : DoubleTap(tapPos)
    \/ FitViewBtn
    \/ FitToViewInstant
    \/ \E bounds \in FitBoxes : FitToBoundsInstant(bounds)
    \/ \E delta \in PanDeltas : PanDrag(delta)
    \/ \E state \in ImportStates : ImportStateCall(state)

SpecCamera == Init /\ [][NextCamera]_vars

\* The draw loop keeps running: frames go on past MaxFrames for as long as an
\* animation is in flight, SettleFrames more at most.
FramesGoOn == frame < MaxFrames \/ (isAnimating /\ frame < MaxFrames + SettleFrames)

FrameLive ==
    \/ FramesGoOn /\ \E deltaTime \in DeltaTimes : FrameUpdate(deltaTime)
    \/ FrameSample
    \/ FrameAge
    \/ FrameRender

\* A frame starts: the step of FrameLive that counts it.
FrameStarts == pc = "update" /\ FramesGoOn /\ frame' = frame + 1

\* The camera's animations: double taps and the Fit View button within the
\* first MaxFrames frames, pinch zooms and pans at any time, and a draw loop
\* that the browser keeps calling.
NextAnimation ==
    \/ FrameLive
    \/ frame <= MaxFrames /\ \E tapPos \in ScreenPoints : DoubleTap(tapPos)
    \/ frame <= MaxFrames /\ FitViewBtn
    \/ \E midPoint \in ScreenPoints, zoomFactor \in ZoomFactors : PinchZoom(midPoint, zoomFactor)
    \/ \E delta \in PanDeltas : PanDrag(delta)

\* The browser calls p.draw again after every frame, and p.draw runs to its
\* end: no step of a frame is put off forever.
SpecAnimation ==
    /\ Init
    /\ [][NextAnimation]_vars
    /\ WF_frame(FrameStarts)
    /\ WF_vars(FrameSample)
    /\ WF_vars(FrameAge)
    /\ WF_vars(FrameRender)

\* The pointer: presses, drags and releases of mouse and touch, and pinch
\* zooms, while frames run.
NextPress ==
    \/ Frame
    \/ \E pos \in PressPoints, isTouchDevice \in BOOLEAN : HandlePress(pos.x, pos.y, isTouchDevice)
    \/ \E pos \in PressPoints, prev \in PressPoints : HandleDrag(pos.x, pos.y, prev.x, prev.y)
    \/ \E pos \in PressPoints : HandleRelease(pos.x, pos.y)
    \/ \E midPoint \in ScreenPoints, zoomFactor \in ZoomFactors : PinchZoom(midPoint, zoomFactor)

SpecPress == Init /\ [][NextPress]_vars

\* Imports of states read from a URL hash or a file, well-formed or not,
\* between guide-point drags, while frames run.
NextImport ==
    \/ Frame
    \/ \E state \in ImportStates \cup MalformedStates : ImportStateCall(state)
    \/ \E i \in 1..2, worldMouse \in DragTargets : DragGuidePoint(i, worldMouse)

SpecImport == Init /\ [][NextImport]_vars

\* The debounce: clicks that push at once, zooms and drags that schedule, and
\* the timers' callbacks, while frames run.
NextDebounce ==
    \/ frame < HistoryFrames /\ \E deltaTime \in DeltaTimes : FrameUpdate(deltaTime)
    \/ FrameSample
    \/ FrameAge
    \/ FrameRender
    \/ \E i \in 2..3 : JointClicked(i)
    \/ \E pos \in WheelPoints, delta \in WheelDeltas : HandleZoom(pos.x, pos.y, delta)
    \/ \E i \in 1..2, worldMouse \in GuideTargets : GuidePointDragged(i, worldMouse)
    \/ DragReleased
    \/ \E timer \in browser.timers : PushTimerFires(timer)
    \/ \E timer \in browser.timers : EncodeTimerFires(timer)

SpecDebounce == Init /\ [][NextDebounce]_vars

\* The browser history: clicks that push at once, zooms and drags that
\* debounce, the timers' callbacks, and the Back and Forward buttons, while
\* frames run.
NextHistory ==
    \/ frame < HistoryFrames /\ \E deltaTime \in DeltaTimes : FrameUpdate(deltaTime)
    \/ FrameSample
    \/ FrameAge
    \/ FrameRender
    \/ \E i \in 2..3 : JointClicked(i)
    \/ AnchorClicked
    \/ \E pos \in WheelPoints, delta \in WheelDeltas : HandleZoom(pos.x, pos.y, delta)
    \/ \E i \in 1..2, worldMouse \in GuideTargets : GuidePointDragged(i, worldMouse)
    \/ DragReleased
    \/ \E timer \in browser.timers : PushTimerFires(timer)
    \/ \E timer \in browser.timers : EncodeTimerFires(timer)
    \/ \E j \in 1..Len(browser.entries) : PopState(j)

SpecHistory == Init /\ [][NextHistory]_vars

\* Continuous play of the crank alone, for a full round and ExtraTicks more.
CrankFrames == FRAMES_PER_ROUND + ExtraTicks

NextCrank ==
    \/ frame < CrankFrames /\ \E deltaTime \in DeltaTimes : FrameUpdate(deltaTime)
    \/ FrameSample
    \/ FrameAge
    \/ FrameRender

SpecCrank == InitCrank /\ [][NextCrank]_vars

---------------------------------------------------------------------------
\* The chain's structure

\* C1: after each addRod() and removeRod() call there is one rod more than
\* there are guide points, and at least one rod.
ChainLengthAfterCall ==
    lastOp \in {"addRod", "removeRod"} =>
        /\ Len(rods) = Len(guidePoints) + 1
        /\ Len(rods) >= 1

\* The lengths addRod may give a rod that follows a rod of length L.
GoldenLengths(L) == {NewRodLength(L, TRUE), NewRodLength(L, FALSE)}

\* C2: addRod() on an updated mechanism whose only rod is the crank, of length
\* L, appends exactly one rod, of length L * PHI or L / PHI, and exactly one
\* guide point, whose id is the new rod's id.
AddRodToCrankStep ==
    (lastOp' = "addRod" /\ Len(rods) = 1 /\ Len(joints) > 0) =>
        /\ Len(rods') = 2
        /\ rods'[1] = [rods[1] EXCEPT !.isTracing = rods'[1].isTracing]
        /\ rods'[2].length \in GoldenLengths(rods[1].length)
        /\ Len(guidePoints') = Len(guidePoints) + 1
        /\ Last(guidePoints').id = rods'[2].id

AddRodToCrank == [][AddRodToCrankStep]_vars

\* C3: there are as many joints as rods after every update() that ran to its
\* end, and right after addRod() or removeRod() returned normally, once the
\* first frame has computed the joints.
JointsMatchRods ==
    (lastOp \in {"update", "addRod", "removeRod"} /\ ~thrown /\ tick >= 1) =>
        Len(joints) = Len(rods)

---------------------------------------------------------------------------
\* The camera

\* C4: the zoom is within [minZoom, maxZoom] after every operation.
ZoomInRange == minZoom <= zoom /\ zoom <= maxZoom

---------------------------------------------------------------------------
\* The traces

\* The keys of the point paths and of the full-rod paths that were sampled.
FullRodKeys == DOMAIN emitted \cap {FullRodKey(i) : i \in 0..MaxRods}
PointKeys == DOMAIN emitted \ FullRodKeys

\* The samples of key k that the draw loop pushed since the fade lifespan last
\* changed: the ones the current lifespan has governed for their whole life.
Governed(k) == {n \in 1..Len(emitted[k]) : emitted[k][n].tick >= fadeSince}

\* The places of path that hold a sample of age a.  A path takes at most one
\* sample per tick and every sample ages on every tick, so ages tell samples apart.
PlacesOfAge(path, a) == {j \in 1..Len(path) : path[j].age = a}

\* At the render step of tick t, a sample pushed at tick T is in its buffer,
\* t - T + 1 ticks old, while t - T < fadeLifespan, and is gone from then on.
RenderedWhileYoung ==
    pc = "render" =>
        \A k \in PointKeys : \A n \in Governed(k) :
            LET e == emitted[k][n]
                path == PathOf(tracePaths, k)
                places == PlacesOfAge(path, tick - e.tick + 1)
            IN  IF tick - e.tick < fadeLifespan
                THEN \E j \in places : path[j].pos = e.pos
                ELSE places = {}

\* An aging step leaves of each buffer a suffix, in order, each sample one tick older.
EvictsPrefixStep ==
    pc = "age" =>
        \A k \in DOMAIN tracePaths :
            /\ k \in DOMAIN tracePaths'
            /\ LET old == tracePaths[k]
                   new == tracePaths'[k]
                   evicted == Len(old) - Len(new)
               IN  /\ evicted >= 0
                   /\ \A j \in 1..Len(new) :
                          new[j] = [old[j + evicted] EXCEPT !.age = @ + 1]

\* C5, amended: with fadeLifespan = F unchanged since the sample was pushed, and
\* ticks counting the frames drawn, a point sample pushed at tick T is in its
\* rod's buffer at the render step of every tick T..T+F-1 and absent at the
\* render step of tick T+F; eviction removes a prefix and never reorders.
TraceEviction == []RenderedWhileYoung /\ [][EvictsPrefixStep]_vars

\* C5, as stated: the sample is still in the buffer at the render step of every
\* tick T..T+F.
RenderedThroughLifespan ==
    pc = "render" =>
        \A k \in PointKeys : \A n \in Governed(k) :
            LET e == emitted[k][n]
                path == PathOf(tracePaths, k)
            IN  tick - e.tick <= fadeLifespan =>
                    \E j \in PlacesOfAge(path, tick - e.tick + 1) : path[j].pos = e.pos

\* A sample pushed fadeLifespan ticks ago is gone at this render step, and the
\* samples pushed after it are still there.
EvictedAtLifespan ==
    /\ pc = "render"
    /\ \E k \in PointKeys : \E n \in Governed(k) :
           /\ tick - emitted[k][n].tick = fadeLifespan
           /\ PlacesOfAge(PathOf(tracePaths, k), fadeLifespan + 1) = {}
           /\ Len(PathOf(tracePaths, k)) > 0

\* The crank's point path.
CrankPath == PathOf(tracePaths, Key(0))

\* C6: the crank alone, tracing, with a fade lifespan of 360, playing without
\* a pause: at the end of tick 360 the first sample is 360 ticks old and heads
\* the buffer; tick 361 evicts it; from then on the buffer holds 360 samples at
\* the end of every tick.
CrankSteadyState ==
    (pc \in {"render", "update"} /\ tick >= 1) =>
        /\ fadeLifespan = FRAMES_PER_ROUND
        /\ tick <= fadeLifespan =>
               /\ Len(CrankPath) = tick
               /\ CrankPath[1] = [pos |-> emitted[Key(0)][1].pos, age |-> tick]
        /\ tick > fadeLifespan =>
               /\ Len(CrankPath) = fadeLifespan
               /\ PlacesOfAge(CrankPath, tick) = {}
               /\ CrankPath[1] = [pos |-> emitted[Key(0)][tick - fadeLifespan + 1].pos,
                                  age |-> fadeLifespan]

\* Tick 361 has evicted the first sample.
FirstSampleEvicted ==
    /\ pc = "update"
    /\ tick = fadeLifespan + 1
    /\ Len(emitted[Key(0)]) = tick
    /\ Len(CrankPath) = fadeLifespan

\* C7: when the sampling loop has run, the joints are those of this frame's
\* crank angle, rod lengths (grown by stretching) and guide points, and the
\* newest sample of every rod sampled is its joint, with age 0.
SampledFromThisFrame ==
    pc = "age" =>
        /\ LET solved == UpdateJoints(anchor.pos, rods, guidePoints, crankAngle, isStretchingMode)
           IN  joints = solved.joints /\ rods = solved.rods
        /\ isPlaying =>
               \A i \in PointSampled :
                   /\ Key(i - 1) \in DOMAIN tracePaths
                   /\ Last(tracePaths[Key(i - 1)]) = [pos |-> joints[i], age |-> 0]

\* A rod that stretching grew in a later frame than the first, after a guide
\* point moved, has just been sampled.
SampledGrownRod ==
    /\ pc = "age"
    /\ isPlaying
    /\ isStretchingMode
    /\ tick >= 2
    /\ guidePoints[2].pos # Pos(400, 200)
    /\ 3 \in PointSampled
    /\ jointSizeMultiplier # <<>>
    /\ rods[3].length = MinLength(joints[2], guidePoints[2])

\* C8, as stated: a frame drawn while the mechanism is paused leaves the point
\* paths and the full-rod paths as they are.
PausedFrameStep ==
    (~isPlaying /\ lastOp' \in {"sample", "age"} /\ pc \in {"sample", "age"}) =>
        UNCHANGED traceVars

PausedFramesKeepTraces == [][PausedFrameStep]_vars

\* C9: in stretching mode no update() and no guide-point move makes a follower
\* rod shorter.
StretchStep ==
    (isStretchingMode /\ lastOp' \in {"update", "dragGuidePoint"}) =>
        /\ Len(rods') = Len(rods)
        /\ \A i \in 2..Len(rods) : rods'[i].length >= rods[i].length

StretchMonotone == [][StretchStep]_vars

\* The last rod grew towards its guide point, the guide point was then dragged
\* closer (the one event so far), and the update() after that kept the length.
KeptLengthAfterGuideMovedCloser ==
    /\ isStretchingMode
    /\ jointSizeMultiplier # <<>>
    /\ lastOp = "update"
    /\ events = 1
    /\ guidePoints[2].pos # Pos(400, 200)
    /\ rods[3].length > MinLength(joints[2], guidePoints[2]) + 50

---------------------------------------------------------------------------
\* The camera's animation

\* C10, as stated: while a zoom animation requested by animatedZoomAt(worldPos, _)
\* runs, no update(dt) moves worldPos on the screen.
AnchoredZoomStep ==
    (animRequest = "zoom" /\ isAnimating /\ lastOp' = "update" /\ pc = "update") =>
        WorldToScreenAt(animWorldPos, offset', zoom') = WorldToScreen(animWorldPos)

AnchoredZoom == [][AnchoredZoomStep]_vars

---------------------------------------------------------------------------
\* Serialization

\* The state's round trips, between guide-point drags, zooms, pans and toggles
\* of the stretching mode, while frames run.
NextSerial ==
    \/ Frame
    \/ ToggleStretchingMode
    \/ \E i \in 1..2, worldMouse \in DragTargets : DragGuidePoint(i, worldMouse)
    \/ \E midPoint \in ScreenPoints, zoomFactor \in ZoomFactors : PinchZoom(midPoint, zoomFactor)
    \/ \E delta \in PanDeltas : PanDrag(delta)
    \/ RoundTrip

SpecSerial == Init /\ [][NextSerial]_vars

\* What the round trip is to preserve of a rod.
Saved(rod) ==
    [length |-> rod.length, isTracing |-> rod.isTracing,
     isFullRodTracing |-> rod.isFullRodTracing]

\* C11: once the first frame has solved the chain, importState(exportState())
\* leaves every rod's length and tracing flags, every guide point's position,
\* the anchor's position and the camera's offset and zoom as they were before
\* the export.
RoundTripStep ==
    (lastOp' = "roundTrip" /\ tick >= 1) =>
        /\ Len(rods') = Len(rods)
        /\ \A i \in 1..Len(rods) : Saved(rods'[i]) = Saved(rods[i])
        /\ Len(guidePoints') = Len(guidePoints)
        /\ \A i \in 1..Len(guidePoints) : guidePoints'[i].pos = guidePoints[i].pos
        /\ anchor' = anchor
        /\ offset' = offset
        /\ zoom' = zoom

---------------------------------------------------------------------------
\* The camera's transforms

\* C12: zoomAt(worldPos, factor) whose new zoom is strictly inside
\* [minZoom, maxZoom] leaves worldToScreen(worldPos) unchanged: the step is a
\* zoom about the world point under one of the pinch midpoints, by one of the
\* factors, and that point keeps its screen position.
ZoomAtStep ==
    (lastOp' = "zoomAt" /\ minZoom < zoom' /\ zoom' < maxZoom) =>
        \E midPoint \in ScreenPoints, zoomFactor \in ZoomFactors :
            LET worldPos == ScreenToWorld(midPoint.x, midPoint.y)
            IN  /\ zoom' = TargetZoom(zoomFactor)
                /\ WorldToScreenAt(worldPos, offset', zoom') = WorldToScreen(worldPos)

ZoomAtKeepsAnchor == [][ZoomAtStep]_vars

\* The first event was a zoomAt that changed the zoom from 1 to 1.3 about a
\* point away from the world origin, so the offset moved.
ZoomedAtPoint ==
    /\ lastOp = "zoomAt"
    /\ events = 1
    /\ zoom = 130
    /\ offset # Pos(0, 0)

\* The zoom that fits a box of the given size into the canvas less a margin of
\* 50 pixels on every side, constrained to the camera's range.
FittingZoom(width, height) ==
    Constrain(Min(RoundDiv((CanvasWidth - 100) * Centi, width),
                  RoundDiv((CanvasHeight - 100) * Centi, height)),
              minZoom, maxZoom)

\* The centre of the canvas, in hundredths of a pixel.
CanvasCentre == Pos(RoundDiv(CanvasWidth * Centi, 2), RoundDiv(CanvasHeight * Centi, 2))

\* C13: a fitToView without animation sets the zoom to the fitting zoom of the
\* bounds and the offset so that the bounds' centre is drawn at the canvas
\* centre; for the box [-50, 50] x [-50, 50] on the 800 x 600 canvas the zoom
\* is maxZoom and the world origin is drawn at (400, 300).
FitInstantStep ==
    /\ lastOp' = "fitToViewInstant" =>
           LET bounds == FitViewBounds
           IN  /\ zoom' = FittingZoom(bounds.width, bounds.height)
               /\ WorldToScreenAt(Pos(bounds.centerX, bounds.centerY), offset', zoom')
                      = CanvasCentre
    /\ lastOp' = "fitToBounds" =>
           /\ zoom' = maxZoom
           /\ WorldToScreenAt(Pos(0, 0), offset', zoom') = Pos(400 * Centi, 300 * Centi)

FitInstantCentres == [][FitInstantStep]_vars

\* The box was fitted after another event, and the world origin is at the canvas
\* centre at the ceiling zoom.
FittedInstantly ==
    /\ lastOp = "fitToBounds"
    /\ events = 2
    /\ zoom = maxZoom
    /\ offset = Pos(400 * Centi, 300 * Centi)

---------------------------------------------------------------------------
\* The floor of the chain

\* C14: removeRod() on a mechanism of the crank alone raises no error and
\* leaves the rods (the crank, its length and tracing flags) and the empty
\* guidePoints as they are.
RemoveRodFloorStep ==
    (lastOp' = "removeRod" /\ Len(rods) = 1) =>
        /\ rods' = rods
        /\ guidePoints' = guidePoints
        /\ guidePoints' = <<>>
        /\ ~thrown'

RemoveRodFloor == [][RemoveRodFloorStep]_vars

\* The third removeRod() in a row on the default chain found the crank alone.
RemovedAtFloor ==
    /\ lastOp = "removeRod"
    /\ structural = 3
    /\ Len(rods) = 1
    /\ rods[1].length = 80
    /\ guidePoints = <<>>

---------------------------------------------------------------------------
\* Clearing a rod's traces

\* C15: after the Remove Rod button's clearTrace for the last rod, neither the
\* point path nor the full-rod path the draw loop recorded for that rod remains.
ClearTraceStep ==
    lastOp' = "removeRod" =>
        /\ Key(Len(rods) - 1) \notin DOMAIN tracePaths'
        /\ FullRodKey(Len(rods) - 1) \notin DOMAIN fullRodTracePaths'

ClearTraceClearsBoth == [][ClearTraceStep]_vars

---------------------------------------------------------------------------
\* The version check

\* C16: importState of a state whose version is missing or is not '1.0' throws
\* and leaves the mechanism, the camera, the traces and the trace
\* configuration as they are.
RejectedImportStep ==
    lastOp' = "importOtherVersion" =>
        /\ thrown'
        /\ UNCHANGED <<mechVars, camVars, traceVars, styleVars, fadeLifespan>>

RejectedImportTouchesNothing == [][RejectedImportStep]_vars

\* A state of another version was rejected after the camera and the chain had
\* changed from what the constructors leave.
RejectedAfterChanges ==
    /\ lastOp = "importOtherVersion"
    /\ thrown
    /\ events = 2
    /\ zoom # Centi
    /\ tick >= 1

---------------------------------------------------------------------------
\* The pick

\* The position of what the selection names.
SelectedPos ==
    CASE selectedObject.type = "anchor" -> anchor.pos
      [] selectedObject.type = "guidePoint" -> guidePoints[selectedObject.rodIndex - 1].pos
      [] selectedObject.type = "joint" -> joints[selectedObject.rodIndex]

\* The world point of the last press.
PressedWorldPoint == ScreenToWorld(pressPos.x, pressPos.y)

\* Right after handlePress returned.
JustPressed == lastOp \in {"handlePress", "handleTouchPress"}

\* C17: among the anchor, the guide points and the joints whose pick circle
\* holds the pointer, handlePress selects one that no other is closer than.
PressSelectsClosest ==
    JustPressed =>
        LET candidates == Candidates(PressedWorldPoint, lastOp = "handleTouchPress")
        IN  candidates # <<>> =>
                /\ selectedObject # Null
                /\ \E i \in 1..Len(candidates) :
                       /\ candidates[i].type = selectedObject.type
                       /\ candidates[i].rodIndex = selectedObject.rodIndex
                /\ \A i \in 1..Len(candidates) :
                       DistSq(SelectedPos, PressedWorldPoint) <= candidates[i].distance

\* A touch between the anchor and the first guide point found the anchor
\* first and selected the guide point, which is closer.
PressedCloserThanFirstFound ==
    /\ JustPressed
    /\ Len(Candidates(PressedWorldPoint, lastOp = "handleTouchPress")) >= 2
    /\ Candidates(PressedWorldPoint, lastOp = "handleTouchPress")[1].type = "anchor"
    /\ Selected("guidePoint")

---------------------------------------------------------------------------
\* Screen to world and back

\* Screen points (pixels) taken through screenToWorld and back: the canvas's
\* corners, its centre, and a point off every grid.
RoundTripPoints == {Pos(0, 0), Pos(23, 51), Pos(400, 300), Pos(799, 599)}

\* worldToScreen(screenToWorld(x, y)), in hundredths of a pixel
ThereAndBack(p) == WorldToScreen(ScreenToWorld(p.x, p.y))

\* How far the round trip lands from where it started, per coordinate, in
\* hundredths of a pixel.
RoundTripError(p) ==
    Pos(Abs(ThereAndBack(p).x - p.x * Centi), Abs(ThereAndBack(p).y - p.y * Centi))

ZoomWithinLimits == minZoom <= zoom /\ zoom <= maxZoom

---------------------------------------------------------------------------
\* The fade

\* 255 * (fadeLifespan - age) / fadeLifespan, times fadeLifespan, in thousandths
LinearAlphaTimesLifespan(age) == 255 * Milli * (fadeLifespan - age)

---------------------------------------------------------------------------
\* The end of an animation

\* The update that ends an animation leaves the zoom at the target zoom of
\* the request in flight, the offset of a fit at the fit's target offset, and
\* no start or target offset behind.
CompletionStep ==
    (isAnimating /\ ~isAnimating') =>
        /\ lastOp' = "update"
        /\ zoom' = animTargetZoom
        /\ animRequest = "fit" => offset' = animTargetOffset
        /\ animTargetOffset' = Null
        /\ animStartOffset' = Null

\* C20: an animation started by animatedZoomAt or by an animated fitToView is
\* ended by the updates that follow, and the update that ends it leaves the
\* zoom at the most recent request's target zoom, a fit's offset at its target
\* offset, and the start and target offsets cleared.
AnimationCompletes ==
    /\ isAnimating ~> ~isAnimating
    /\ [][CompletionStep]_vars

\* A fit that followed another gesture has completed: the camera rests on the
\* fit's target zoom, away from the zoom it was built with, and no start or
\* target offset is left.
FitCompletedAfterZoom ==
    /\ animRequest = "fit"
    /\ ~isAnimating
    /\ animProgress = Centi
    /\ events = 2
    /\ zoom = animTargetZoom
    /\ zoom # Centi
    /\ animStartOffset = Null

---------------------------------------------------------------------------
\* Full-rod frames against point samples

\* The point samples of rod i (0-based) pushed at the given tick.
PointSamplesAt(i, t) ==
    IF Key(i) \in PointKeys
    THEN {n \in Governed(Key(i)) : emitted[Key(i)][n].tick = t}
    ELSE {}

\* At the render step of tick t, a full-rod frame captured at tick T is in its
\* buffer, t - T + 1 ticks old, while t - T < fadeLifespan - 1, and is gone from
\* then on; at tick T + fadeLifespan - 1, when the frame has just gone, a point
\* sample of the same rod pushed at tick T is still there.
FrameGoesOneTickEarlier ==
    pc = "render" =>
        \A i \in 0..MaxRods : FullRodKey(i) \in FullRodKeys =>
            \A n \in Governed(FullRodKey(i)) :
                LET e == emitted[FullRodKey(i)][n]
                    path == PathOf(fullRodTracePaths, FullRodKey(i))
                    places == PlacesOfAge(path, tick - e.tick + 1)
                    points == PathOf(tracePaths, Key(i))
                IN  /\ IF tick - e.tick < fadeLifespan - 1
                       THEN \E j \in places : Last(path[j].points) = e.pos
                       ELSE places = {}
                    /\ (tick - e.tick = fadeLifespan - 1 /\ PointSamplesAt(i, e.tick) # {}) =>
                           \E j \in PlacesOfAge(points, fadeLifespan) : points[j].pos = e.pos
                    /\ tick - e.tick >= fadeLifespan =>
                           PlacesOfAge(points, tick - e.tick + 1) = {}

\* An aging step shifts frames off the head of each full-rod buffer and ages
\* the rest by one.
ShiftsHeadStep ==
    pc = "age" =>
        \A k \in DOMAIN fullRodTracePaths :
            /\ k \in DOMAIN fullRodTracePaths'
            /\ LET old == fullRodTracePaths[k]
                   new == fullRodTracePaths'[k]
                   evicted == Len(old) - Len(new)
               IN  /\ evicted >= 0
                   /\ \A j \in 1..evicted : old[j].age + 1 >= fadeLifespan
                   /\ \A j \in 1..Len(new) :
                          /\ new[j] = [old[j + evicted] EXCEPT !.age = @ + 1]
                          /\ new[j].age < fadeLifespan

\* C21: with fadeLifespan = F unchanged since the capture, a full-rod frame
\* captured at tick T is shifted off the head during the aging of tick T+F-1,
\* one tick before a point sample pushed at the same tick (tick T+F).
FullRodEviction == []FrameGoesOneTickEarlier /\ [][ShiftsHeadStep]_vars

\* A full-rod frame captured fadeLifespan - 1 ticks ago is gone at this render
\* step while the point sample of the same rod and tick is still in its buffer.
FrameGonePointKept ==
    /\ pc = "render"
    /\ \E i \in 0..MaxRods :
           /\ FullRodKey(i) \in FullRodKeys
           /\ \E n \in Governed(FullRodKey(i)) :
                  LET e == emitted[FullRodKey(i)][n]
                      points == PathOf(tracePaths, Key(i))
                  IN  /\ tick - e.tick = fadeLifespan - 1
                      /\ fadeLifespan >= 2
                      /\ PointSamplesAt(i, e.tick) # {}
                      /\ PlacesOfAge(PathOf(fullRodTracePaths, FullRodKey(i)), fadeLifespan) = {}
                      /\ \E j \in PlacesOfAge(points, fadeLifespan) : points[j].pos = e.pos

---------------------------------------------------------------------------
\* The stretching minimum

\* The guide's sleeve and the joint's radius, as the renderer draws them.
GuideClearance == rodsWidth * 5
JointClearance == RoundDiv(traceWidth * jointSizeMultiplier[1], 2)

\* The least length of follower rod i (1-based) under the given joints.
RequiredLength(js, i) ==
    Dist(js[i - 1], guidePoints[i - 1].pos) + GuideClearance + JointClearance

\* An update() in stretching mode, with the joint clearance defined.
StretchingUpdate ==
    /\ isStretchingMode
    /\ jointSizeMultiplier # <<>>
    /\ pc = "update"
    /\ lastOp' = "update"
    /\ ~thrown'

\* C22: in stretching mode, after updateJoints() every follower rod is at
\* least as long as the distance from its parent joint to its guide point
\* plus the guide clearance plus the joint clearance: a rod that was shorter
\* is exactly that long, and a rod that was long enough has kept its length.
GrowsToMinimumStep ==
    StretchingUpdate =>
        \A i \in 2..Len(rods') :
            /\ rods'[i].length >= RequiredLength(joints', i)
            /\ rods[i].length < RequiredLength(joints', i) =>
                   rods'[i].length = RequiredLength(joints', i)
            /\ rods[i].length >= RequiredLength(joints', i) =>
                   rods'[i].length = rods[i].length

---------------------------------------------------------------------------
\* Tracing follows the tip

\* An addRod() that appended a rod leaves it tracing and the previous tip not
\* tracing; a removeRod() that removed a rod leaves the new tip tracing.
TipHandoverStep ==
    /\ (lastOp' = "addRod" /\ Len(rods') = Len(rods) + 1) =>
           /\ rods'[Len(rods')].isTracing
           /\ ~rods'[Len(rods)].isTracing
    /\ (lastOp' = "removeRod" /\ Len(rods') = Len(rods) - 1) =>
           rods'[Len(rods')].isTracing

\* C23: addRod() hands tracing over from the previous tip to the rod it
\* appends, removeRod() switches it on on the new tip, and so after any
\* sequence of addRod() and removeRod() calls the tip rod is tracing.
TipIsTracing == [](Last(rods).isTracing) /\ [][TipHandoverStep]_vars

\* The third of three structural calls appended a fourth rod: it is tracing
\* and the rod before it is not.
TipHandedOver ==
    /\ lastOp = "addRod"
    /\ structural = 3
    /\ Len(rods) = 4
    /\ rods[4].isTracing
    /\ ~rods[3].isTracing
    /\ ~thrown

---------------------------------------------------------------------------
\* update()

\* The joints of the chain, worked out link by link from the anchor, the crank
\* angle, the rod lengths and the guide points.
ChainFollows(js, rs, angle) ==
    /\ Len(js) = Len(rs)
    /\ js[1] = Endpoint(anchor.pos, rs[1].length, CrankDirection(angle))
    /\ \A i \in 2..Len(rs) :
           js[i] = Endpoint(js[i - 1], rs[i].length,
                            AimDirection(js[i - 1], guidePoints[i - 1].pos))

\* update() turns the crank by crankSpeed when playing and not at all when
\* paused, and either way leaves the joints of the anchor, rods and guide
\* points as they are now.
UpdateStep ==
    (pc = "update" /\ lastOp' = "update" /\ ~thrown') =>
        /\ isPlaying => crankAngle' = crankAngle + crankSpeed
        /\ ~isPlaying => crankAngle' = crankAngle
        /\ ChainFollows(joints', rods', crankAngle')

\* C24: update() advances crankAngle by one step of the signed crank speed
\* when playing and leaves it when paused, and in both cases recomputes the
\* joints from the current anchor, rod lengths and guide points.
UpdateTurnsAndSolves == [][UpdateStep]_vars

\* The mechanism was paused and a guide point was then dragged; the frame
\* after that kept the crank angle and moved the joints to the new guide.
PausedDragReflected ==
    /\ ~isPlaying
    /\ events = 2
    /\ pc = "sample"
    /\ guidePoints[1].pos # Pos(400, 380)
    /\ crankAngle = 1
    /\ ChainFollows(joints, rods, crankAngle)

---------------------------------------------------------------------------
\* C25: at most one debounced push is pending at any time, and it is the one
\* the history manager holds the handle of; a pushToHistoryNow leaves none
\* pending; and the pending push, when its timer fires, adds one history
\* entry at most and leaves none pending.  So a burst of schedule calls with
\* no expiry in between, however long, adds one entry at most.

\* The timers set for a debounced push.
PushTimers == {t \in browser.timers : t.callback = "pushState"}

OnePendingPush ==
    /\ Cardinality(PushTimers) <= 1
    /\ \A t \in PushTimers : historyManager.pendingPush = t.id

PushNowCancelsStep ==
    lastOp' \in {"clickJoint", "reverseSpinDirection"} /\ events' = events + 1
        => PushTimers' = {} /\ historyManager'.pendingPush = NoTimer

BurstPushesOnceStep ==
    lastOp' = "pushTimer" /\ clock' = clock + 1
        => /\ historyManager'.historyIndex <= historyManager.historyIndex + 1
           /\ Len(browser'.entries) <= Len(browser.entries) + 1
           /\ PushTimers' = {}

DebouncedPush ==
    /\ []OnePendingPush
    /\ [][PushNowCancelsStep /\ BurstPushesOnceStep]_vars

\* Witness: two wheel events in a row scheduled two pushes (four timers set in
\* all), the one push left pending has just fired, and the history holds one
\* new entry.
BurstPushedOnce ==
    /\ lastOp = "pushTimer"
    /\ events = 2
    /\ browser.nextTimer = 5
    /\ historyManager.historyIndex = 1
    /\ Len(historyManager.stateHistory) = 2
    /\ PushTimers = {}

---------------------------------------------------------------------------
\* C26: a _pushState() that finds the mechanism, the camera and the settings
\* as they were at the last push or replace creates no history entry: the
\* index, the stack and the browser's entries stay as they are.

\* A step in which _pushState() runs: a click's pushToHistoryNow(), or the
\* debounced push's timer.
PushStateRuns ==
    /\ lastOp' \in {"clickJoint", "reverseSpinDirection", "pushTimer"}
    /\ clock' = clock + 1

\* What the application exports now says what the last pushed state says.
UnchangedSinceLastPush ==
    /\ historyManager.lastPushedState # Null
    /\ ExportState' = Content(historyManager.lastPushedState)

SkipsUnchangedStep ==
    PushStateRuns /\ UnchangedSinceLastPush
        => /\ historyManager'.historyIndex = historyManager.historyIndex
           /\ historyManager'.stateHistory = historyManager.stateHistory
           /\ browser'.entries = browser.entries

SkipsUnchanged == [][SkipsUnchangedStep]_vars

---------------------------------------------------------------------------
\* C27: whenever the Back or Forward button takes the browser onto an entry
\* that _pushState or _replaceState made, the popstate listener imports the
\* state stored at the index the entry was made with, and historyIndex becomes
\* that index; a URL refresh of the entry in between changes nothing of this.

\* The step is the popstate listener's run for entry j.
PopsOnto(j) ==
    /\ lastOp' = "popstate"
    /\ browser.index # j
    /\ browser'.index = j

\* The listener restored the state stored at `index`.
RestoredFrom(index) ==
    /\ index + 1 <= Len(historyManager.stateHistory)
    /\ restored' = historyManager.stateHistory[index + 1]
    /\ historyManager'.historyIndex = index

PopStateRestoresStep ==
    \A j \in 1..Len(browser.entries) :
        PopsOnto(j) /\ browser.entries[j].madeAs >= 0
            => RestoredFrom(browser.entries[j].madeAs)

PopStateRestores == [][PopStateRestoresStep]_vars

---------------------------------------------------------------------------
\* C28: a restore through popstate pushes no history entry and truncates no
\* forward history: not in the listener's own run, after which
\* isRestoringFromHistory is false again, and not when a debounced push that
\* was pending at the popstate fires as the next task after the restore.

\* The history stack and the browser's entries are left as they are.
HistoryKept ==
    /\ historyManager'.stateHistory = historyManager.stateHistory
    /\ [k \in DOMAIN browser'.entries |-> browser'.entries[k].madeAs]
           = [k \in DOMAIN browser.entries |-> browser.entries[k].madeAs]

ListenerKeepsHistoryStep ==
    lastOp' = "popstate"
        => HistoryKept /\ ~historyManager'.isRestoringFromHistory

PendingPushAfterRestoreStep ==
    lastOp = "popstate" /\ restored # Null /\ lastOp' = "pushTimer"
        => HistoryKept /\ historyManager'.historyIndex = historyManager.historyIndex

RestoreKeepsHistory ==
    [][ListenerKeepsHistoryStep /\ PendingPushAfterRestoreStep]_vars

---------------------------------------------------------------------------
\* C29: an importState that fails part-way on a state that passed the version
\* check leaves a chain with the crank in it and one guide point per follower
\* rod: rods.length >= 1 and rods.length = guidePoints.length + 1.

FailedImportStep ==
    lastOp' = "importMalformed" /\ thrown'
        => /\ Len(rods') >= 1
           /\ Len(rods') = Len(guidePoints') + 1

FailedImportKeepsChain == [][FailedImportStep]_vars

---------------------------------------------------------------------------
\* C30: every point-trace buffer runs from the oldest sample to the newest,
\* with ages strictly decreasing from head to tail; and right after
\* traceSystem.update() no sample left in a buffer is older than fadeLifespan,
\* also when fadeLifespan was lowered while samples were held.

\* The ages of a path decrease strictly from head to tail.
StrictlyYounger(path) ==
    \A j \in 1..(Len(path) - 1) : path[j].age > path[j + 1].age

\* traceSystem.update() has just run: the frame stands before its render step.
JustAged == pc = "render"

\* No sample left in a buffer is older than the lifespan.
NoneOlderThanLifespan ==
    \A k \in DOMAIN tracePaths :
        \A j \in 1..Len(tracePaths[k]) : tracePaths[k][j].age <= fadeLifespan

TraceBuffersOrdered ==
    /\ [](\A k \in DOMAIN tracePaths : StrictlyYounger(tracePaths[k]))
    /\ [](JustAged => NoneOlderThanLifespan)

\* Witness: the lifespan was lowered to one frame while two samples were
\* held; the third frame's update has just run, and of the three samples
\* taken the buffer holds the newest alone.
LoweredLifespanEvictedTwo ==
    /\ JustAged
    /\ fadeLifespan = 1
    /\ tick = 3
    /\ fadeSince = 3
    /\ \E k \in DOMAIN tracePaths \cap PointKeys :
           /\ Len(emitted[k]) = 3
           /\ Len(tracePaths[k]) = 1
           /\ tracePaths[k][1].age = 1

====
